---- MODULE Spec2Model ----
(***************************************************************************)
(* Tier ("ladder") resolution and cost reconciliation of the HAOS utility  *)
(* integrations: petrochina_gas (piecewise gas cost, GasCoordinator),      *)
(* kunming_water (fixed 3-band lookup) and csg_client (electricity month   *)
(* detail, fallback estimator, annual tier info).                          *)
(*                                                                         *)
(* Numbers.  Python floats are modelled in fixed point:                    *)
(*   volumes (m3, kWh)  in tenths of a unit            (12.5 m3  -> 125)   *)
(*   prices             in cents per unit              (2.97 CNY -> 297)   *)
(*   volume * price     in thousandths of a CNY                            *)
(*   money              in cents; round(x, 2) maps thousandths to cents    *)
(* float("inf") is the value INF, larger than every finite number used.    *)
(* None is the value None, distinct from every number used.               *)
(***************************************************************************)
EXTENDS Integers, Sequences, FiniteSets, TLC

VARIABLES
    last,            \* name of the operation that ran last ("init" at start)
    volume,          \* calculate_cost_by_ladder: argument volume
    ladder_config,   \* calculate_cost_by_ladder: argument ladder_config
    gasResult,       \* calculate_cost_by_ladder: returned tuple
    total_usage,     \* calculate_ladder_stage: argument total_usage
    waterResult,     \* calculate_ladder_stage: returned dict
    eReq,            \* CSGClient wrapper call: what the provider answers to it
    eRet,            \* CSGClient wrapper call: value returned or error raised
    eCalls,          \* CSGClient wrapper call: provider endpoints called, in order
    eLocals,         \* CSGClient wrapper call: path taken and locals computed
    gasApi,          \* GasCoordinator: what the gas provider answers, per endpoint
    data,            \* GasCoordinator.data: account_number -> account_data dict
    _clients,        \* GasCoordinator._clients: user_code -> client (_token, _mdm_code)
    _logged_in,      \* GasCoordinator._logged_in: user_code -> bool
    _first_refresh_done, \* GasCoordinator._first_refresh_done
    tasks,           \* accounts with a scheduled _async_fetch_full_data task
    cursor,          \* _async_update_data: position of its for loop in the accounts
    monthly_fetch,   \* per account: how the last monthly-usage fetch ended
    refresh_no,      \* number of the _async_update_data call the loop is in
    fetched,         \* background tasks suspended with their refresh result
    calls_log,       \* per account: the call_with_relogin calls of the stored fetch
    _config,         \* WaterCoordinator._config: the config entry's data
    waterData        \* WaterCoordinator.data: user_code -> account_data dict

vars == <<last, volume, ladder_config, gasResult, total_usage, waterResult,
          eReq, eRet, eCalls, eLocals,
          gasApi, data, _clients, _logged_in, _first_refresh_done, tasks, cursor,
          monthly_fetch, refresh_no, fetched, calls_log, _config, waterData>>

coordVars == <<gasApi, data, _clients, _logged_in, _first_refresh_done, tasks,
               cursor, monthly_fetch, refresh_no, fetched, calls_log>>

gasVars == <<volume, ladder_config, gasResult>>

waterVars == <<total_usage, waterResult, _config, waterData>>

elecVars == <<eReq, eRet, eCalls, eLocals>>

\* ------------------------------------------------------------------------
\* Python values
\* ------------------------------------------------------------------------
None == -999999

INF == 1000000

\* a - b on floats where a may be float("inf")
FSub(a, b) == IF a = INF THEN INF ELSE a - b

\* round(x, 2) of a value given in thousandths: the result is in cents,
\* ties go to the even cent (Python 3 round).
Round2(m) ==
    LET q == m \div 10
        r == m % 10
    IN  IF r < 5 THEN q
        ELSE IF r > 5 THEN q + 1
        ELSE IF q % 2 = 0 THEN q ELSE q + 1

\* list.index(x): position of the first element equal to x (1-based here)
IndexOf(seq, x) == CHOOSE i \in 1..Len(seq) :
                      /\ seq[i] = x
                      /\ \A j \in 1..(i - 1) : seq[j] # x

\* ------------------------------------------------------------------------
\* petrochina_gas/sensor.py : calculate_cost_by_ladder
\* ------------------------------------------------------------------------
\* the for loop of calculate_cost_by_ladder, entered at element i with the
\* loop variables remaining_volume, total_cost, current_stage, current_price
RECURSIVE LadderLoop(_, _, _, _, _, _)
LadderLoop(cfg, i, remaining_volume, total_cost, current_stage, current_price) ==
    IF i > Len(cfg)
    THEN <<current_stage, current_price, Round2(total_cost)>>
    ELSE LET ladder == cfg[i]
             ladder_volume == FSub(ladder.end, ladder.start)
         IN  IF remaining_volume <= ladder_volume
             THEN <<IndexOf(cfg, ladder), ladder.price,
                    Round2(total_cost + remaining_volume * ladder.price)>>
             ELSE LadderLoop(cfg, i + 1,
                             remaining_volume - ladder_volume,
                             total_cost + ladder_volume * ladder.price,
                             IndexOf(cfg, ladder), ladder.price)

\* mutant: the whole volume is charged in every crossed band (the loop
\* forgets to take the band's capacity off the remaining volume)
RECURSIVE LadderLoopNoCarry(_, _, _, _, _, _)
LadderLoopNoCarry(cfg, i, remaining_volume, total_cost, current_stage, current_price) ==
    IF i > Len(cfg)
    THEN <<current_stage, current_price, Round2(total_cost)>>
    ELSE LET ladder == cfg[i]
             ladder_volume == FSub(ladder.end, ladder.start)
         IN  IF remaining_volume <= ladder_volume
             THEN <<IndexOf(cfg, ladder), ladder.price,
                    Round2(total_cost + remaining_volume * ladder.price)>>
             ELSE LadderLoopNoCarry(cfg, i + 1,
                             remaining_volume,
                             total_cost + ladder_volume * ladder.price,
                             IndexOf(cfg, ladder), ladder.price)

\* mutant: the band the volume ends in overwrites the cost accumulated so
\* far (total_cost = ... in place of total_cost += ...)
RECURSIVE LadderLoopLastBandOnly(_, _, _, _, _, _)
LadderLoopLastBandOnly(cfg, i, remaining_volume, total_cost, current_stage, current_price) ==
    IF i > Len(cfg)
    THEN <<current_stage, current_price, Round2(total_cost)>>
    ELSE LET ladder == cfg[i]
             ladder_volume == FSub(ladder.end, ladder.start)
         IN  IF remaining_volume <= ladder_volume
             THEN <<IndexOf(cfg, ladder), ladder.price,
                    Round2(remaining_volume * ladder.price)>>
             ELSE LadderLoopLastBandOnly(cfg, i + 1,
                             remaining_volume - ladder_volume,
                             total_cost + ladder_volume * ladder.price,
                             IndexOf(cfg, ladder), ladder.price)

calculate_cost_by_ladder_lastbandonly(vol, cfg) ==
    IF cfg = <<>> \/ vol = 0
    THEN <<1, 0, 0>>
    ELSE LadderLoopLastBandOnly(cfg, 1, vol, 0, 0, 0)

\* mutant: no early return for an empty band list or a zero volume
calculate_cost_by_ladder_noedge(vol, cfg) == LadderLoop(cfg, 1, vol, 0, 0, 0)

calculate_cost_by_ladder_nocarry(vol, cfg) ==
    IF cfg = <<>> \/ vol = 0
    THEN <<1, 0, 0>>
    ELSE LadderLoopNoCarry(cfg, 1, vol, 0, 0, 0)

calculate_cost_by_ladder(vol, cfg) ==
    IF cfg = <<>> \/ vol = 0
    THEN <<1, 0, 0>>
    ELSE LadderLoop(cfg, 1, vol, 0, 0, 0)

\* ------------------------------------------------------------------------
\* kunming_water/const.py, api_client.py : calculate_ladder_stage
\* ------------------------------------------------------------------------
WATER_LADDER_CONFIG ==
    << [max_volume |-> 125, unit_price |-> 420, stage |-> 1],
       [max_volume |-> 175, unit_price |-> 580, stage |-> 2],
       [max_volume |-> INF, unit_price |-> 1060, stage |-> 3] >>

RECURSIVE WaterLoop(_, _)
WaterLoop(usage, i) ==
    IF i > Len(WATER_LADDER_CONFIG)
    THEN [stage |-> WATER_LADDER_CONFIG[Len(WATER_LADDER_CONFIG)].stage,
          unit_price |-> WATER_LADDER_CONFIG[Len(WATER_LADDER_CONFIG)].unit_price,
          monthly_usage |-> usage]
    ELSE IF usage <= WATER_LADDER_CONFIG[i].max_volume
         THEN [stage |-> WATER_LADDER_CONFIG[i].stage,
               unit_price |-> WATER_LADDER_CONFIG[i].unit_price,
               monthly_usage |-> usage]
         ELSE WaterLoop(usage, i + 1)

\* mutant: the comparison is strict, a usage on a boundary moves up a band
RECURSIVE WaterLoopStrict(_, _)
WaterLoopStrict(usage, i) ==
    IF i > Len(WATER_LADDER_CONFIG)
    THEN [stage |-> WATER_LADDER_CONFIG[Len(WATER_LADDER_CONFIG)].stage,
          unit_price |-> WATER_LADDER_CONFIG[Len(WATER_LADDER_CONFIG)].unit_price,
          monthly_usage |-> usage]
    ELSE IF usage < WATER_LADDER_CONFIG[i].max_volume
         THEN [stage |-> WATER_LADDER_CONFIG[i].stage,
               unit_price |-> WATER_LADDER_CONFIG[i].unit_price,
               monthly_usage |-> usage]
         ELSE WaterLoopStrict(usage, i + 1)

calculate_ladder_stage_strict(usage) == WaterLoopStrict(usage, 1)

\* mutant: the loop does not stop at the first band that holds the usage,
\* the last band that holds it wins
calculate_ladder_stage_lastmatch(usage) ==
    LET holds == {i \in 1..Len(WATER_LADDER_CONFIG) :
                     usage <= WATER_LADDER_CONFIG[i].max_volume}
        i == IF holds = {} THEN Len(WATER_LADDER_CONFIG)
             ELSE CHOOSE k \in holds : \A j \in holds : j <= k
    IN  [stage |-> WATER_LADDER_CONFIG[i].stage,
         unit_price |-> WATER_LADDER_CONFIG[i].unit_price,
         monthly_usage |-> usage]

calculate_ladder_stage(usage) == WaterLoop(usage, 1)

\* ------------------------------------------------------------------------
\* csg_client : Python values of response fields, errors
\* ------------------------------------------------------------------------
\* a field of a JSON response: absent key, null, "", a number, or a string
\* holding the decimal text of a number
Fld(t, v) == [t |-> t, v |-> v]

Missing == Fld("missing", 0)

Null == Fld("null", 0)

Empty == Fld("empty", 0)

Num(n) == Fld("num", n)

NumStr(n) == Fld("numstr", n)

\* d.get(k) is None
IsNone(x) == x.t \in {"missing", "null"}

\* bool(d.get(k)): None, "" and the number 0 are false, every non-empty
\* string (the text "0" too) is true
Truthy(x) ==
    CASE x.t \in {"missing", "null", "empty"} -> FALSE
      [] x.t = "num" -> x.v # 0
      [] OTHER -> TRUE

\* float(d.get(k)): the error it raises ("" when it raises none), its value
FloatError(x) ==
    CASE x.t \in {"missing", "null"} -> "TypeError"
      [] x.t = "empty" -> "ValueError"
      [] OTHER -> ""

Float(x) == x.v

\* int(d[k]) of a whole number or of its text
ToInt(x) == x.v

\* d.get(k, 0): the default replaces an absent key only
GetOrZero(x) == IF x.t = "missing" THEN Num(0) ELSE x

Raise(exc) == [kind |-> "raise", exc |-> exc, value |-> <<>>]

Return(v) == [kind |-> "return", exc |-> "", value |-> v]

\* except CSGAPIError: the class and its subclasses
IsCSGAPIError(exc) ==
    exc \in {"CSGAPIError", "CSGHTTPError", "InvalidCredentials", "NotLoggedIn"}

RESP_STA_SUCCESS == "00"

RESP_STA_NO_LOGIN == "04"

\* _make_request followed by the sta check of an api_* function: net is what
\* the network does, [transport, http_status, sta, data]
ApiResult(net) ==
    IF net.transport # "ok" THEN Raise("ConnectionError")
    ELSE IF net.http_status # 200 THEN Raise("CSGHTTPError")
    ELSE IF net.sta = RESP_STA_SUCCESS THEN Return(net.data)
    ELSE IF net.sta = RESP_STA_NO_LOGIN THEN Raise("NotLoggedIn")
    ELSE Raise("CSGAPIError")

\* names csg_client/const.py defines for the wrapper functions; a name that
\* is not among them cannot be imported from .const nor read as a global
CONST_NAMES ==
    {"RESP_STA_SUCCESS", "RESP_STA_NO_LOGIN", "JSON_KEY_YEAR_MONTH",
     "WF_ATTR_LADDER", "WF_ATTR_LADDER_START_DATE",
     "WF_ATTR_LADDER_REMAINING_KWH", "WF_ATTR_LADDER_TARIFF",
     "WF_ATTR_DATE", "WF_ATTR_MONTH", "WF_ATTR_CHARGE", "WF_ATTR_KWH"}

\* ------------------------------------------------------------------------
\* csg_client : get_month_daily_cost_detail, primary path
\* ------------------------------------------------------------------------
\* datetime.strptime(s, "%Y-%m-%d %H:%M:%S.%f"): a date text is carried as
\* the number yyyymmdd of its date, the datetime as the same number
Strptime(x) == x.v

\* mutant: a missing power is reported as 0 kWh
DayRecordZero(d_data, resp_data) ==
    [date |-> d_data.date,
     charge |-> IF ~IsNone(d_data.charge) THEN Float(d_data.charge)
                ELSE IF ~IsNone(d_data.power) /\ ~IsNone(resp_data.ladderEleTariff)
                     THEN Round2(Float(d_data.power) * Float(resp_data.ladderEleTariff))
                     ELSE None,
     kwh |-> IF ~IsNone(d_data.power) THEN Float(d_data.power) ELSE 0]

\* mutant: a day's charge is never derived from its power and the tariff
DayRecordNoDerive(d_data, resp_data) ==
    [date |-> d_data.date,
     charge |-> IF ~IsNone(d_data.charge) THEN Float(d_data.charge) ELSE None,
     kwh |-> IF ~IsNone(d_data.power) THEN Float(d_data.power) ELSE None]

\* one element of by_day (lines 771-787)
DayRecord(d_data, resp_data) ==
    [date |-> d_data.date,
     charge |-> IF ~IsNone(d_data.charge) THEN Float(d_data.charge)
                ELSE IF ~IsNone(d_data.power) /\ ~IsNone(resp_data.ladderEleTariff)
                     THEN Round2(Float(d_data.power) * Float(resp_data.ladderEleTariff))
                     ELSE None,
     kwh |-> IF ~IsNone(d_data.power) THEN Float(d_data.power) ELSE None]

\* mutant: the month total is derived from usage and tariff even when the
\* response carries its own total
MonthDetailDerivedFirst(resp_data) ==
    LET by_day == [i \in 1..Len(resp_data.result) |->
                      DayRecord(resp_data.result[i], resp_data)]
        cost0 == IF ~IsNone(resp_data.totalElectricity)
                 THEN Float(resp_data.totalElectricity) ELSE None
        month_total_kwh == IF ~IsNone(resp_data.totalPower)
                           THEN Float(resp_data.totalPower) ELSE None
        current_tariff == IF ~IsNone(resp_data.ladderEleTariff)
                          THEN Float(resp_data.ladderEleTariff) ELSE None
        month_total_cost ==
            IF month_total_kwh # None /\ current_tariff # None
            THEN Round2(month_total_kwh * current_tariff)
            ELSE cost0
    IN  [month_total_cost |-> month_total_cost,
         month_total_kwh |-> month_total_kwh,
         ladder |-> [ladder |-> IF ~IsNone(resp_data.ladderEle)
                                THEN ToInt(resp_data.ladderEle) ELSE None,
                     start_date |-> IF ~IsNone(resp_data.ladderEleStartDate)
                                    THEN Strptime(resp_data.ladderEleStartDate)
                                    ELSE None,
                     remaining_kwh |-> IF ~IsNone(resp_data.ladderEleSurplus)
                                       THEN Float(resp_data.ladderEleSurplus)
                                       ELSE None,
                     tariff |-> current_tariff],
         by_day |-> by_day]

\* lines 770-840: the tuple built from a successful day-detail response
MonthDetailFromResponse(resp_data) ==
    LET by_day == [i \in 1..Len(resp_data.result) |->
                      DayRecord(resp_data.result[i], resp_data)]
        cost0 == IF ~IsNone(resp_data.totalElectricity)
                 THEN Float(resp_data.totalElectricity) ELSE None
        month_total_kwh == IF ~IsNone(resp_data.totalPower)
                           THEN Float(resp_data.totalPower) ELSE None
        current_ladder == IF ~IsNone(resp_data.ladderEle)
                          THEN ToInt(resp_data.ladderEle) ELSE None
        current_ladder_start_date ==
            IF ~IsNone(resp_data.ladderEleStartDate)
            THEN Strptime(resp_data.ladderEleStartDate) ELSE None
        current_ladder_remaining_kwh ==
            IF ~IsNone(resp_data.ladderEleSurplus)
            THEN Float(resp_data.ladderEleSurplus) ELSE None
        current_tariff == IF ~IsNone(resp_data.ladderEleTariff)
                          THEN Float(resp_data.ladderEleTariff) ELSE None
        month_total_cost ==
            IF cost0 = None /\ month_total_kwh # None /\ current_tariff # None
            THEN Round2(month_total_kwh * current_tariff)
            ELSE cost0
    IN  [month_total_cost |-> month_total_cost,
         month_total_kwh |-> month_total_kwh,
         ladder |-> [ladder |-> current_ladder,
                     start_date |-> current_ladder_start_date,
                     remaining_kwh |-> current_ladder_remaining_kwh,
                     tariff |-> current_tariff],
         by_day |-> by_day]

\* ------------------------------------------------------------------------
\* csg_client : _get_month_detail_from_year_stats (fallback estimator)
\* ------------------------------------------------------------------------
\* The reference tier table the fallback imports from .const.  const.py does
\* not define it; the bands are those the specification gives for it
\* ([0,1000) [1000,2000) [2000,3000) [3000,inf) kWh at 0.30 0.40 0.50 0.60).
LADDER_TIER_DEFINITIONS ==
    << [range_min |-> 0, range_max |-> 10000, price |-> 30],
       [range_min |-> 10000, range_max |-> 20000, price |-> 40],
       [range_min |-> 20000, range_max |-> 30000, price |-> 50],
       [range_min |-> 30000, range_max |-> None, price |-> 60] >>

NoTier == [ladder |-> None, tariff |-> None, remaining_kwh |-> None]

\* the for loop of lines 938-965 entered at tier_num, cur holding
\* current_ladder, current_ladder_tariff, current_ladder_remaining_kwh
RECURSIVE TierLoop(_, _, _, _)
TierLoop(defs, tier_num, total_year_kwh, cur) ==
    IF tier_num > 4 THEN cur
    ELSE LET tier == defs[tier_num]
         IN  IF tier.range_max = None
             THEN IF total_year_kwh >= tier.range_min
                  THEN TierLoop(defs, tier_num + 1, total_year_kwh,
                                [ladder |-> tier_num, tariff |-> tier.price,
                                 remaining_kwh |-> None])
                  ELSE TierLoop(defs, tier_num + 1, total_year_kwh, cur)
             ELSE IF tier.range_min <= total_year_kwh
                     /\ total_year_kwh <= tier.range_max
                  THEN [ladder |-> tier_num, tariff |-> tier.price,
                        remaining_kwh |-> tier.range_max - total_year_kwh]
                  ELSE IF total_year_kwh < tier.range_min
                       THEN IF tier_num > 1
                            THEN [ladder |-> tier_num - 1,
                                  tariff |-> defs[tier_num - 1].price,
                                  remaining_kwh |->
                                     IF defs[tier_num - 1].range_max # None
                                     THEN defs[tier_num - 1].range_max - total_year_kwh
                                     ELSE cur.remaining_kwh]
                            ELSE cur
                       ELSE TierLoop(defs, tier_num + 1, total_year_kwh, cur)

\* f"{year}-{month:02d}": the text is carried as <<year, tens, units>>
MonthStr(year_month) ==
    <<year_month[1], year_month[2] \div 10, year_month[2] % 10>>

\* position of the first element of electricAndChargeList whose yearMonth
\* is month_str, 0 when there is none
RECURSIVE FindMonth(_, _, _)
FindMonth(list, month_str, i) ==
    IF i > Len(list) THEN 0
    ELSE IF list[i].yearMonth = month_str THEN i
    ELSE FindMonth(list, month_str, i + 1)

\* get_month_daily_usage_detail: the month total of the usage-only endpoint
get_month_daily_usage_detail(net) ==
    LET api == ApiResult(net)
    IN  IF api.kind = "raise" THEN api
        ELSE IF FloatError(api.value.totalPower) # ""
             THEN Raise(FloatError(api.value.totalPower))
             ELSE IF \E i \in 1..Len(api.value.result) :
                        FloatError(api.value.result[i].power) # ""
                  THEN Raise("TypeError")
                  ELSE Return(Float(api.value.totalPower))

\* lines 891-990, after the import of the tier table: fenv is
\* [year_month, is_current_month, stats, usage]
FallbackBody(fenv, defs) ==
    LET stats == ApiResult(fenv.stats)
    IN  IF stats.kind = "raise"
        THEN [ret |-> stats, calls |-> <<"api_get_fee_analyze_details">>]
        ELSE
        LET resp_data == stats.value
            list == resp_data.electricAndChargeList
            at == FindMonth(list, MonthStr(fenv.year_month), 1)
            parseErr == IF at = 0 THEN ""
                        ELSE IF FloatError(list[at].actualTotalAmount) # ""
                             THEN FloatError(list[at].actualTotalAmount)
                             ELSE FloatError(list[at].billingElectricity)
            cost0 == IF at = 0 THEN None ELSE Float(list[at].actualTotalAmount)
            kwh0 == IF at = 0 THEN None ELSE Float(list[at].billingElectricity)
            askUsage == kwh0 = None /\ fenv.is_current_month
            usage == get_month_daily_usage_detail(fenv.usage)
            month_total_kwh == IF askUsage /\ usage.kind = "return"
                               THEN usage.value ELSE kwh0
            calls == IF askUsage
                     THEN <<"api_get_fee_analyze_details",
                            "api_query_day_electric_by_m_point">>
                     ELSE <<"api_get_fee_analyze_details">>
            total == resp_data.totalBillingElectricity
            total_year_kwh == IF IsNone(total) THEN 0 ELSE Float(total)
            cur == TierLoop(defs, 1, total_year_kwh, NoTier)
            month_total_cost ==
                IF cost0 = None /\ month_total_kwh # None /\ cur.tariff # None
                THEN Round2(month_total_kwh * cur.tariff)
                ELSE cost0
        IN  IF parseErr # ""
            THEN [ret |-> Raise(parseErr),
                  calls |-> <<"api_get_fee_analyze_details">>]
            ELSE IF ~IsNone(total) /\ FloatError(total) # ""
            THEN [ret |-> Raise(FloatError(total)), calls |-> calls]
            ELSE [ret |-> Return(
                     [month_total_cost |-> month_total_cost,
                      month_total_kwh |-> month_total_kwh,
                      ladder |-> [ladder |-> cur.ladder,
                                  start_date |-> None,
                                  remaining_kwh |-> cur.remaining_kwh,
                                  tariff |-> cur.tariff],
                      by_day |-> <<>>]),
                  calls |-> calls]

\* line 889 first: "from .const import LADDER_TIER_DEFINITIONS" raises
\* ImportError when const.py does not define the name, before any call
_get_month_detail_from_year_stats(fenv) ==
    IF "LADDER_TIER_DEFINITIONS" \notin CONST_NAMES
    THEN [ret |-> Raise("ImportError"), calls |-> <<>>]
    ELSE FallbackBody(fenv, LADDER_TIER_DEFINITIONS)

\* ------------------------------------------------------------------------
\* csg_client : get_month_daily_cost_detail
\* ------------------------------------------------------------------------
\* mutant: only the generic provider error starts the fallback
StartsFallbackProviderOnly(exc) == exc = "CSGAPIError"

\* line 763, except CSGAPIError: the errors of the day-detail call that
\* start the fallback
StartsFallback(exc) == IsCSGAPIError(exc)

\* env is [primary, fallback]: the network's answer to the day-detail call
\* and what the fallback would meet
get_month_daily_cost_detail(env) ==
    LET api == ApiResult(env.primary)
        first == <<"api_query_day_electric_charge_by_m_point">>
    IN  IF api.kind = "raise"
        THEN IF StartsFallback(api.exc)
             THEN LET fb == _get_month_detail_from_year_stats(env.fallback)
                  IN  [ret |-> fb.ret, calls |-> first \o fb.calls,
                       path |-> "fallback"]
             ELSE [ret |-> api, calls |-> first, path |-> "primary"]
        ELSE [ret |-> Return(MonthDetailFromResponse(api.value)),
              calls |-> first, path |-> "primary"]

\* ------------------------------------------------------------------------
\* csg_client : get_calendar_ladder_info
\* ------------------------------------------------------------------------
\* A text is the sequence of its characters, one romanised syllable per
\* Chinese character, "[" and "]" for the brackets of a gear name.
\* ladder_name_to_tier, in the dict's insertion order
ladder_name_to_tier ==
    << [name |-> <<"dian", "neng", "ti4", "dai">>, tier |-> 1],
       [name |-> <<"ju", "min", "jie", "ti1", "yi">>, tier |-> 2],
       [name |-> <<"ju", "min", "jie", "ti1", "er">>, tier |-> 3],
       [name |-> <<"ju", "min", "jie", "ti1", "san">>, tier |-> 4] >>

\* a in b on str
IsSubstring(a, b) ==
    \E i \in 0..(Len(b) - Len(a)) : SubSeq(b, i + 1, i + Len(a)) = a

\* mutant: the name must equal the gear name, brackets and all
NameMatchesExact(name, gear) == name = gear

\* line 1058: "if name in current_gear_name"
NameMatches(name, gear) == IsSubstring(name, gear)

\* lines 1057-1060: the tier of the first table name found in the gear name
RECURSIVE NameLoop(_, _)
NameLoop(gear, i) ==
    IF i > Len(ladder_name_to_tier) THEN None
    ELSE IF NameMatches(ladder_name_to_tier[i].name, gear)
         THEN ladder_name_to_tier[i].tier
         ELSE NameLoop(gear, i + 1)

\* lines 1065-1070: the position of the first band of ladderInfoList with
\* threshholdBottom <= total_electricity <= threshholdTop
RECURSIVE BandLoop(_, _, _)
BandLoop(list, total_electricity, i) ==
    IF i > Len(list) THEN None
    ELSE IF ToInt(list[i].threshholdBottom) <= total_electricity
            /\ total_electricity <= ToInt(list[i].threshholdTop)
         THEN i
         ELSE BandLoop(list, total_electricity, i + 1)

\* "float(d.get(k, 0)) if d.get(k) else None"
FloatIfTruthy(x) == IF Truthy(x) THEN Float(GetOrZero(x)) ELSE None

\* lines 1072-1080
LadderList(list) ==
    [i \in 1..Len(list) |->
        [name |-> list[i].ladderName,
         price |-> Float(GetOrZero(list[i].priceValue)),
         range_min |-> ToInt(list[i].threshholdBottom),
         range_max |-> ToInt(list[i].threshholdTop)]]

NoCalLocals == [current_ladder |-> None, tariff |-> None, remaining_kwh |-> None]

\* net is the network's answer to queryAnnualElectricityTierInfo.  The dict
\* of lines 1082-1093 is built key by key; its fifth key is the global name
\* WF_ATTR_YEARLY_LADDER_TOTAL_KWH, whose lookup raises NameError when
\* const.py does not define it.  locals holds what was computed before.
get_calendar_ladder_info(net) ==
    LET api == ApiResult(net)
    IN  IF api.kind = "raise" THEN [ret |-> api, locals |-> NoCalLocals]
        ELSE
        LET resp_data == api.value
            gear == IF resp_data.currentGear.t = "str"
                    THEN resp_data.currentGear.s ELSE <<>>
            byName == NameLoop(gear, 1)
            total == GetOrZero(resp_data.totalElectricityOfYear)
            current_ladder ==
                IF byName # None THEN byName
                ELSE BandLoop(resp_data.ladderInfoList, Float(total), 1)
            computed ==
                [current_ladder |-> current_ladder,
                 tariff |-> FloatIfTruthy(resp_data.currentElectricityPrice),
                 remaining_kwh |-> FloatIfTruthy(resp_data.gearPowerLeft)]
        IN  IF resp_data.currentGear.t = "null"
            THEN [ret |-> Raise("TypeError"), locals |-> NoCalLocals]
            ELSE IF byName = None /\ FloatError(total) # ""
            THEN [ret |-> Raise(FloatError(total)), locals |-> NoCalLocals]
            ELSE IF "WF_ATTR_YEARLY_LADDER_TOTAL_KWH" \notin CONST_NAMES
            THEN [ret |-> Raise("NameError"), locals |-> computed]
            ELSE [ret |-> Return(
                     [ladder |-> computed.current_ladder,
                      tariff |-> computed.tariff,
                      remaining_kwh |-> computed.remaining_kwh,
                      start_date |-> resp_data.startDate,
                      yearly_ladder_total_kwh |->
                          FloatIfTruthy(resp_data.totalElectricityOfYear),
                      ladder_end_date |-> resp_data.endDate,
                      all_tiers |-> LadderList(resp_data.ladderInfoList)]),
                  locals |-> computed]

\* ------------------------------------------------------------------------
\* Inputs of the pure functions
\* ------------------------------------------------------------------------
MaxBands == 3

\* ranges and prices of the rate tables the gas API hands out
BandRanges == {<<0, 3600>>, <<3600, 5400>>, <<5400, INF>>, <<3600, INF>>}
BandPrices == {297, 356, 446}

Bands == {[start |-> r[1], end |-> r[2], price |-> p] :
             r \in BandRanges, p \in BandPrices}

RECURSIVE SeqsUpTo(_, _)
SeqsUpTo(S, n) ==
    IF n = 0 THEN {<<>>}
    ELSE LET shorter == SeqsUpTo(S, n - 1)
         IN  shorter \cup {Append(s, x) : s \in {t \in shorter : Len(t) = n - 1}, x \in S}

LadderConfigs == SeqsUpTo(Bands, MaxBands)

GasVolumes == {0, 1, 15, 3000, 3600, 4000, 5400, 6005}

MaxWaterUsage == 200

\* the function takes any float; nothing keeps a caller from passing a
\* negative usage
NegativeUsages == {-50, -1}

WaterUsages == NegativeUsages \cup 0..MaxWaterUsage

NoResult == [kind |-> "none"]

GasIdle ==
    /\ volume = 0
    /\ ladder_config = <<>>
    /\ gasResult = NoResult

WaterIdle ==
    /\ total_usage = 0
    /\ waterResult = NoResult
    /\ _config = NoResult
    /\ waterData = <<>>

ElecIdle ==
    /\ eReq = NoResult
    /\ eRet = NoResult
    /\ eCalls = <<>>
    /\ eLocals = NoResult

\* GasCoordinator.__init__: no data, no clients, first refresh pending
CoordInit ==
    /\ data = <<>>
    /\ _clients = <<>>
    /\ _logged_in = <<>>
    /\ _first_refresh_done = FALSE
    /\ tasks = {}
    /\ cursor = 1
    /\ monthly_fetch = <<>>
    /\ refresh_no = 1
    /\ fetched = <<>>
    /\ calls_log = <<>>

CoordIdle ==
    /\ gasApi = NoResult
    /\ CoordInit

\* ------------------------------------------------------------------------
\* Gas cost function applied to drawn inputs
\* ------------------------------------------------------------------------
InitGas ==
    /\ last = "init"
    /\ volume \in GasVolumes
    /\ ladder_config \in LadderConfigs
    /\ gasResult = NoResult
    /\ WaterIdle
    /\ ElecIdle
    /\ CoordIdle

CalculateCostByLadder ==
    /\ last = "init"
    /\ LET r == calculate_cost_by_ladder(volume, ladder_config)
       IN  gasResult' = [kind |-> "return", stage |-> r[1],
                         unit_price |-> r[2], cost |-> r[3]]
    /\ last' = "calculate_cost_by_ladder"
    /\ UNCHANGED <<volume, ladder_config, waterVars, elecVars, coordVars>>

NextGas == CalculateCostByLadder

SpecGas == InitGas /\ [][NextGas]_vars

\* ------------------------------------------------------------------------
\* Water stage lookup applied to drawn inputs
\* ------------------------------------------------------------------------
InitWater ==
    /\ last = "init"
    /\ GasIdle
    /\ WaterIdle
    /\ ElecIdle
    /\ CoordIdle

CalculateLadderStage ==
    /\ \E u \in WaterUsages :
         /\ total_usage' = u
         /\ waterResult' = [kind |-> "return", value |-> calculate_ladder_stage(u)]
    /\ last' = "calculate_ladder_stage"
    /\ UNCHANGED <<gasVars, elecVars, coordVars, _config, waterData>>

NextWater == CalculateLadderStage

SpecWater == InitWater /\ [][NextWater]_vars

\* ------------------------------------------------------------------------
\* Electricity wrappers applied to drawn provider answers
\* ------------------------------------------------------------------------
MaxDays == 2

\* what the network does to one request; payload is the data of a success
NetOk(payload) == [transport |-> "ok", http_status |-> 200, sta |-> "00", data |-> payload]

NetFailures ==
    { [transport |-> "ok", http_status |-> 200, sta |-> "02", data |-> <<>>],
      [transport |-> "ok", http_status |-> 200, sta |-> "04", data |-> <<>>],
      [transport |-> "ok", http_status |-> 500, sta |-> "", data |-> <<>>],
      [transport |-> "ConnectionError", http_status |-> 0, sta |-> "", data |-> <<>>] }

DayItems ==
    [date : {20240501},
     charge : {Null, NumStr(45)},
     power : {Null, NumStr(0), NumStr(15)}]

DayDetailResponses ==
    [totalElectricity : {Null, NumStr(0), NumStr(5000)},
     totalPower : {Null, NumStr(0), NumStr(1005)},
     ladderEle : {Null, NumStr(2)},
     ladderEleStartDate : {Null, Fld("datestr", 20230501)},
     ladderEleSurplus : {Null, NumStr(0), Num(8200)},
     ladderEleTariff : {Null, NumStr(45)},
     result : SeqsUpTo(DayItems, MaxDays)]

MonthItems ==
    [yearMonth : {<<2024, 0, 5>>, <<2024, 0, 4>>},
     actualTotalAmount : {NumStr(5000)},
     billingElectricity : {NumStr(1005)}]

YearStatsResponses ==
    [totalBillingElectricity : {Missing, Null, NumStr(0), NumStr(10000), NumStr(25000),
                                NumStr(-100)},
     electricAndChargeList : SeqsUpTo(MonthItems, 1)]

UsageResponses ==
    [totalPower : {NumStr(300)}, result : {<<>>, <<[power |-> Null]>>}]

FallbackEnvs ==
    [year_month : {<<2024, 5>>},
     is_current_month : BOOLEAN,
     stats : {NetOk(d) : d \in YearStatsResponses}
             \cup {f \in NetFailures : f.http_status = 500},
     usage : {NetOk(d) : d \in UsageResponses}
             \cup {f \in NetFailures : f.sta = "02"}]

MonthDetailEnvs ==
    {[primary |-> NetOk(d), fallback |-> NoResult] : d \in DayDetailResponses}
    \cup [primary : NetFailures, fallback : FallbackEnvs]

GearNames ==
    { [t |-> "missing", s |-> <<>>],
      [t |-> "null", s |-> <<>>],
      [t |-> "str", s |-> <<"[", "dian", "neng", "ti4", "dai", "]">>],
      [t |-> "str", s |-> <<"[", "ju", "min", "jie", "ti1", "yi", "]">>],
      [t |-> "str", s |-> <<"[", "ju", "min", "jie", "ti1", "er", "]">>],
      [t |-> "str", s |-> <<"[", "ju", "min", "jie", "ti1", "san", "]">>],
      [t |-> "str", s |-> <<"ju", "min", "jie", "ti1", "er">>],
      [t |-> "str", s |-> <<"[", "ju", "min", "jie", "ti1", "]">>],
      [t |-> "str", s |-> <<"[", "ju", "min", "jie", "ti1", "yi", "]",
                            "[", "dian", "neng", "ti4", "dai", "]">>] }

NumericFields == {Missing, Null, Empty, Num(0), NumStr(0), Num(45), NumStr(45)}

TierInfoLists ==
    { <<>>,
      << [ladderName |-> "tier1", priceValue |-> NumStr(42),
          threshholdBottom |-> NumStr(0), threshholdTop |-> NumStr(20400)],
         [ladderName |-> "tier2", priceValue |-> NumStr(47),
          threshholdBottom |-> NumStr(20410), threshholdTop |-> NumStr(31200)],
         [ladderName |-> "tier3", priceValue |-> NumStr(72),
          threshholdBottom |-> NumStr(31210), threshholdTop |-> NumStr(99999990)] >> }

TierInfoResponses ==
    [currentGear : GearNames,
     totalElectricityOfYear : {Missing, Null, Empty, Num(0), NumStr(20400), NumStr(20405), NumStr(25000)},
     currentElectricityPrice : NumericFields,
     gearPowerLeft : {Missing, Null, Empty, Num(0), NumStr(0), NumStr(8200)},
     startDate : {20240101},
     endDate : {20241231},
     ladderInfoList : TierInfoLists]

CalendarNets == {NetOk(d) : d \in TierInfoResponses} \cup NetFailures

ElecRequests ==
    {[fn |-> "get_month_daily_cost_detail", env |-> e] : e \in MonthDetailEnvs}
    \cup {[fn |-> "get_calendar_ladder_info", env |-> n] : n \in CalendarNets}

\* one wrapper call per behaviour: the provider's answers are drawn at the
\* start, the call consumes them
InitElec ==
    /\ last = "init"
    /\ GasIdle
    /\ WaterIdle
    /\ eReq \in ElecRequests
    /\ eRet = NoResult
    /\ eCalls = <<>>
    /\ eLocals = NoResult
    /\ CoordIdle

GetMonthDailyCostDetail ==
    /\ last = "init"
    /\ eReq.fn = "get_month_daily_cost_detail"
    /\ LET r == get_month_daily_cost_detail(eReq.env)
       IN  /\ eRet' = r.ret
           /\ eCalls' = r.calls
           /\ eLocals' = [path |-> r.path]
    /\ last' = "get_month_daily_cost_detail"
    /\ UNCHANGED <<gasVars, waterVars, eReq, coordVars>>

GetCalendarLadderInfo ==
    /\ last = "init"
    /\ eReq.fn = "get_calendar_ladder_info"
    /\ LET r == get_calendar_ladder_info(eReq.env)
       IN  /\ eRet' = r.ret
           /\ eCalls' = <<"api_query_annual_electricity_tier_info">>
           /\ eLocals' = r.locals
    /\ last' = "get_calendar_ladder_info"
    /\ UNCHANGED <<gasVars, waterVars, eReq, coordVars>>

NextElec == GetMonthDailyCostDetail \/ GetCalendarLadderInfo

SpecElec == InitElec /\ [][NextElec]_vars

\* ------------------------------------------------------------------------
\* petrochina_gas/sensor.py : GasCoordinator
\* ------------------------------------------------------------------------
\* Python dicts are functions whose domain is the set of keys present.
EmptyDict == <<>>

\* d.get(k, default)
DictGet(d, k, default) == IF k \in DOMAIN d THEN d[k] ELSE default

\* d.update(e)
DictUpdate(d, e) == e @@ d

\* Python None where the other values are dicts or objects
PyNone == [py_none |-> TRUE]

IsPyNone(v) == "py_none" \in DOMAIN v

\* truth value of an Optional[dict]
DictTruthy(v) == ~IsPyNone(v) /\ DOMAIN v # {}

\* d[k] = v
DictSet(d, k, v) == (k :> v) @@ d

\* "x = v" followed by the statements Rest(x): v is evaluated once
Bind(v, Rest(_)) == CHOOSE r \in {Rest(x) : x \in {v}} : TRUE

\* the accounts of the config entry, in the order the dict yields them;
\* the account number is the user code
Accounts == <<"10000001", "10000002">>

\* GasHttpClient.__init__: no token, no mdm code
NewClient == [_token |-> FALSE, _mdm_code |-> FALSE]

\* GasHttpClient.password_login against the provider's answer gasApi.login:
\* a token in the answer is kept and the call is true, the company info of
\* the answer may carry the mdm code; every failure is false
password_login(client) ==
    IF gasApi.login = "token"
    THEN [ok |-> TRUE, client |-> [client EXCEPT !._token = TRUE]]
    ELSE IF gasApi.login = "token_and_mdm"
         THEN [ok |-> TRUE, client |-> [_token |-> TRUE, _mdm_code |-> TRUE]]
         ELSE [ok |-> FALSE, client |-> client]

\* GasCoordinator._get_or_create_client: the client of user_code, logged in
\* with the configured mobile and password when it is not already
_get_or_create_client(clients, logged_in, user_code) ==
    LET known == user_code \in DOMAIN clients
        c0 == IF known THEN clients[user_code] ELSE NewClient
        l0 == IF known THEN DictGet(logged_in, user_code, FALSE) ELSE FALSE
    IN  IF gasApi.credentials
        THEN IF l0 /\ c0._token
             THEN [clients |-> DictSet(clients, user_code, c0),
                   logged_in |-> DictSet(logged_in, user_code, l0)]
             ELSE Bind(password_login(c0), LAMBDA r :
                  [clients |-> DictSet(clients, user_code, r.client),
                   logged_in |-> DictSet(logged_in, user_code, r.ok)])
        ELSE [clients |-> DictSet(clients, user_code, c0),
              logged_in |-> DictSet(logged_in, user_code, FALSE)]

\* One answer of the provider to a request: the request raises
\* ([kind |-> "raise", exc]), the provider reports a failure
\* ([kind |-> "error"]) or it sends a payload ([kind |-> "ok", value]).
\* gasApi.<endpoint> is the sequence of answers to the attempts of one call.
ApiRaise(exc) == [kind |-> "raise", exc |-> exc]

ApiError == [kind |-> "error"]

ApiOk(v) == [kind |-> "ok", value |-> v]

\* GasHttpClient.get_user_debt: None on a reported failure, else the account
get_user_debt(client, answer) ==
    IF answer.kind = "raise" THEN Raise(answer.exc)
    ELSE IF answer.kind = "error" THEN Return(PyNone)
    ELSE Return(answer.value)

\* GasHttpClient.get_payment_records: None when not logged in or on a
\* reported failure, else the payload
get_payment_records(client, answer) ==
    IF ~client._token THEN Return(PyNone)
    ELSE IF answer.kind = "raise" THEN Raise(answer.exc)
    ELSE IF answer.kind = "error" THEN Return(PyNone)
    ELSE Return(answer.value)

\* GasHttpClient.get_monthly_usage: None when not logged in, {"error": ..}
\* on a reported failure, else the data of the payload ({} when it has none)
get_monthly_usage(client, answer) ==
    IF ~client._token THEN Return(PyNone)
    ELSE IF answer.kind = "raise" THEN Raise(answer.exc)
    ELSE IF answer.kind = "error" THEN Return([error |-> "Unknown error"])
    ELSE Return(answer.value)

\* GasHttpClient.get_daily_usage: None when not logged in or on a reported
\* failure, else {"daily_volumes": [...]} (newest day first)
get_daily_usage(client, answer) ==
    IF ~client._token THEN Return(PyNone)
    ELSE IF answer.kind = "raise" THEN Raise(answer.exc)
    ELSE IF answer.kind = "error" THEN Return(PyNone)
    ELSE Return([daily_volumes |-> answer.value])

\* hass.async_add_executor_job(func): func is the name of the client method
ExecutorJob(func, client, answer) ==
    CASE func = "get_user_debt" -> get_user_debt(client, answer)
      [] func = "get_payment_records" -> get_payment_records(client, answer)
      [] func = "get_monthly_usage" -> get_monthly_usage(client, answer)
      [] func = "get_daily_usage" -> get_daily_usage(client, answer)

\* the record of one call_with_relogin call: what it gives its caller (res),
\* the client it leaves, and what it did: the outcome of each attempt of
\* func in order (tries), the number of password logins it attempted and
\* whether one succeeded
RelogCall(func, tries, client, logins, login_ok) ==
    [func |-> func, res |-> tries[Len(tries)], client |-> client,
     tries |-> tries, logins |-> logins, login_ok |-> login_ok]

\* call_with_relogin with a loop that goes on to the second attempt after a
\* 403 whether or not the password login succeeded
call_with_relogin_retryalways(func, client, answers) ==
    Bind(ExecutorJob(func, client, answers[1]), LAMBDA first :
    IF first.kind = "raise" /\ first.exc = "403" /\ gasApi.credentials
    THEN Bind(password_login(client), LAMBDA r :
         RelogCall(func,
                   <<first, ExecutorJob(func, r.client, answers[Len(answers)])>>,
                   r.client, 1, r.ok))
    ELSE RelogCall(func, <<first>>, client, 0, FALSE))

\* call_with_relogin(func): the call, repeated once after a successful
\* password login when its first attempt raised an error that mentions 403
call_with_relogin(func, client, answers) ==
    Bind(ExecutorJob(func, client, answers[1]), LAMBDA first :
    IF first.kind = "raise" /\ first.exc = "403" /\ gasApi.credentials
    THEN Bind(password_login(client), LAMBDA r :
         IF r.ok
         THEN RelogCall(func,
                        <<first, ExecutorJob(func, r.client, answers[Len(answers)])>>,
                        r.client, 1, TRUE)
         ELSE RelogCall(func, <<first>>, r.client, 1, FALSE))
    ELSE RelogCall(func, <<first>>, client, 0, FALSE))

\* the keys both refresh functions copy from the GasAccount of get_user_debt;
\* last_communication is the instant parse_datetime reads from the text
UserDebtFields(user_debt) ==
    [balance |-> user_debt.remote_meter_balance,
     customer_name |-> user_debt.customer_name,
     address |-> user_debt.address,
     account_id |-> user_debt.account_id,
     meter_reading |-> user_debt.reading_last_time,
     last_communication |-> user_debt.remote_meter_last_communication_time,
     meter_type |-> user_debt.meter_type,
     mdm_code |-> user_debt.mdm_code,
     user_code |-> user_debt.user_code,
     gas_company |-> "Kunlun Gas Kunming"]

\* step 1 of both refresh functions: res is what get_user_debt gave
UserDebtStep(res, client) ==
    IF res.kind = "return" /\ ~IsPyNone(res.value)
    THEN [account_data |-> UserDebtFields(res.value),
          client |-> IF res.value.mdm_code # ""
                     THEN [client EXCEPT !._mdm_code = TRUE]
                     ELSE client]
    ELSE [account_data |-> EmptyDict, client |-> client]

\* the payment records block of _async_refresh_account_data
PaymentFields(res) ==
    IF res.kind = "raise"
    THEN [last_payment |-> 0, last_payment_date |-> "fetch failed", owe_amount |-> 0]
    ELSE LET payment_records == res.value
         IN  IF DictTruthy(payment_records) /\ "error" \in DOMAIN payment_records
             THEN [last_payment |-> 0, last_payment_date |-> "auth failed",
                   owe_amount |-> 0]
             ELSE IF DictTruthy(payment_records)
                     /\ "recordsInfoList" \in DOMAIN payment_records
                  THEN LET records == payment_records.recordsInfoList
                       IN  IF records # <<>>
                           THEN [last_payment |-> DictGet(records[1], "payAmount", 0),
                                 last_payment_date |->
                                     DictGet(records[1], "operationDate", ""),
                                 owe_amount |-> DictGet(records[1], "oweAmount", 0)]
                           ELSE [last_payment |-> 0,
                                 last_payment_date |-> "no payment records",
                                 owe_amount |-> 0]
                  ELSE EmptyDict

\* what the except branch of the monthly usage block publishes
MonthlyExceptDefaults ==
    [monthly_volume |-> 0, monthly_cost |-> 0,
     current_month_volume |-> 0, current_month_cost |-> 0,
     yearly_volume |-> 0, yearly_cost |-> 0,
     ladder_stage |-> 1, ladder_unit_price |-> 0]

\* the monthly usage block of _async_refresh_account_data: the keys it
\* sets, and how the fetch ended
MonthlyFields(res) ==
    IF res.kind = "raise"
    THEN [fields |-> MonthlyExceptDefaults, how |-> "raised"]
    ELSE LET monthly_data == res.value
         IN  IF DictTruthy(monthly_data) /\ "error" \notin DOMAIN monthly_data
             THEN LET rate_items == DictGet(monthly_data, "rateItemInfo", <<>>)
                      cfg == [i \in 1..Len(rate_items) |->
                                [start |-> DictGet(rate_items[i], "beginVolume", 0),
                                 end |-> DictGet(rate_items[i], "endVolume", INF),
                                 price |-> DictGet(rate_items[i], "price", 0)]]
                      records == DictGet(monthly_data, "recordsInfo", <<>>)
                      yearly_volume == DictGet(monthly_data, "totalGasVolume", 0)
                  IN  IF Len(records) >= 2
                      THEN LET last_month_volume ==
                                   DictGet(records[Len(records) - 1], "gasVolume", 0)
                               current_month_volume ==
                                   DictGet(records[Len(records)], "gasVolume", 0)
                               y == calculate_cost_by_ladder(yearly_volume, cfg)
                           IN  [fields |->
                                  [monthly_volume |-> last_month_volume,
                                   monthly_cost |->
                                     calculate_cost_by_ladder(last_month_volume, cfg)[3],
                                   current_month_volume |-> current_month_volume,
                                   current_month_cost |->
                                     calculate_cost_by_ladder(current_month_volume, cfg)[3],
                                   yearly_volume |-> yearly_volume,
                                   yearly_cost |-> y[3],
                                   ladder_stage |-> y[1],
                                   ladder_unit_price |-> y[2]],
                                how |-> "ok"]
                      ELSE IF Len(records) = 1
                      THEN LET current_month_volume ==
                                   DictGet(records[1], "gasVolume", 0)
                               current_month_cost ==
                                   calculate_cost_by_ladder(current_month_volume, cfg)[3]
                           IN  IF cfg = <<>>
                               THEN \* ladder_config[0] raises IndexError
                                    [fields |-> MonthlyExceptDefaults,
                                     how |-> "index_error"]
                               ELSE [fields |->
                                       [monthly_volume |-> 0,
                                        monthly_cost |-> 0,
                                        current_month_cost |-> current_month_cost,
                                        yearly_volume |-> current_month_volume,
                                        yearly_cost |-> current_month_cost,
                                        ladder_stage |-> 1,
                                        ladder_unit_price |-> cfg[1].price],
                                     how |-> "ok"]
                      ELSE [fields |->
                              [monthly_volume |-> 0, monthly_cost |-> 0,
                               current_month_cost |-> 0,
                               yearly_volume |-> 0, yearly_cost |-> 0,
                               ladder_stage |-> 1, ladder_unit_price |-> 0],
                            how |-> "ok"]
             ELSE [fields |-> EmptyDict,
                   how |-> IF DictTruthy(monthly_data) THEN "error" ELSE "no_data"]

RECURSIVE SumVolumes(_, _)
SumVolumes(daily_volumes, i) ==
    IF i > Len(daily_volumes) THEN 0
    ELSE DictGet(daily_volumes[i], "volume", 0) + SumVolumes(daily_volumes, i + 1)

DailyZeros ==
    [last_day_usage |-> 0, last_day_usage_time |-> "",
     recent_monthly_usage |-> 0, recent_monthly_cost |-> 0,
     last_day_usage_cost |-> 0]

\* the daily usage block with the unit price left at its default of 0
\* whatever the monthly block resolved
DailyFieldsNoPrice(res, account_data) ==
    IF res.kind = "raise" THEN DailyZeros
    ELSE LET daily_usage == res.value
         IN  IF DictTruthy(daily_usage) /\ "daily_volumes" \in DOMAIN daily_usage
                /\ daily_usage.daily_volumes # <<>>
             THEN LET daily_volumes == daily_usage.daily_volumes
                  IN  [last_day_usage |-> DictGet(daily_volumes[1], "volume", 0),
                       last_day_usage_time |-> DictGet(daily_volumes[1], "date", ""),
                       meter_reading |-> DictGet(daily_volumes[1], "reading", 0),
                       recent_monthly_usage |-> SumVolumes(daily_volumes, 1),
                       recent_monthly_cost |-> 0,
                       last_day_usage_cost |-> 0]
             ELSE DailyZeros

\* the daily usage block of _async_refresh_account_data; account_data is
\* the dict built so far (it holds the ladder unit price, if any)
DailyFields(res, account_data) ==
    IF res.kind = "raise" THEN DailyZeros
    ELSE LET daily_usage == res.value
         IN  IF DictTruthy(daily_usage) /\ "daily_volumes" \in DOMAIN daily_usage
             THEN LET daily_volumes == daily_usage.daily_volumes
                  IN  IF daily_volumes # <<>>
                      THEN LET last_day == daily_volumes[1]
                               last_day_volume == DictGet(last_day, "volume", 0)
                               recent_monthly_volume == SumVolumes(daily_volumes, 1)
                               ladder_unit_price ==
                                   DictGet(account_data, "ladder_unit_price", 0)
                           IN  [last_day_usage |-> last_day_volume,
                                last_day_usage_time |-> DictGet(last_day, "date", ""),
                                meter_reading |-> DictGet(last_day, "reading", 0),
                                recent_monthly_usage |-> recent_monthly_volume,
                                recent_monthly_cost |->
                                    Round2(recent_monthly_volume * ladder_unit_price),
                                last_day_usage_cost |->
                                    Round2(last_day_volume * ladder_unit_price)]
                      ELSE DailyZeros
             ELSE DailyZeros

\* what _async_refresh_account_data publishes for a client without token
\* or mdm code
UnauthDefaults ==
    [last_payment |-> 0, owe_amount |-> 0,
     monthly_volume |-> 0, monthly_cost |-> 0,
     current_month_cost |-> 0, current_month_volume |-> 0,
     yearly_volume |-> 0, yearly_cost |-> 0,
     last_day_usage |-> 0, last_day_usage_time |-> "",
     recent_monthly_cost |-> 0, recent_monthly_usage |-> 0,
     last_day_usage_cost |-> 0,
     ladder_stage |-> 1, ladder_unit_price |-> 0]

\* GasCoordinator._async_refresh_account_data: the account_data it returns,
\* the clients and login marks it leaves, how the monthly fetch ended and
\* the call_with_relogin calls it made, in order
_async_refresh_account_data(clients, logged_in, user_code) ==
    Bind(_get_or_create_client(clients, logged_in, user_code), LAMBDA g :
    Bind(call_with_relogin("get_user_debt", g.clients[user_code], gasApi.debt),
         LAMBDA debt :
    Bind(UserDebtStep(debt.res, debt.client), LAMBDA s1 :
    IF s1.client._token /\ s1.client._mdm_code
    THEN Bind(call_with_relogin("get_payment_records", s1.client, gasApi.payment),
              LAMBDA pay :
         Bind(call_with_relogin("get_monthly_usage", pay.client, gasApi.monthly),
              LAMBDA mon :
         Bind(MonthlyFields(mon.res), LAMBDA mf :
         Bind(DictUpdate(DictUpdate(s1.account_data, PaymentFields(pay.res)),
                         mf.fields),
              LAMBDA d3 :
         Bind(call_with_relogin("get_daily_usage", mon.client, gasApi.daily),
              LAMBDA day :
         Bind(DictUpdate(d3, DailyFields(day.res, d3)), LAMBDA d4 :
         [account_data |-> IF "current_month_volume" \notin DOMAIN d4
                           THEN DictSet(d4, "current_month_volume", 0)
                           ELSE d4,
          clients |-> DictSet(g.clients, user_code, day.client),
          logged_in |-> g.logged_in,
          how |-> mf.how,
          calls |-> <<debt, pay, mon, day>>]))))))
    ELSE [account_data |-> DictUpdate(s1.account_data, UnauthDefaults),
          clients |-> DictSet(g.clients, user_code, s1.client),
          logged_in |-> g.logged_in,
          how |-> "unauthenticated",
          calls |-> <<debt>>])))

\* the defaults _async_refresh_basic_data fills in for keys not yet present
BasicDefaults ==
    [gas_company |-> "Kunlun Gas Kunming",
     last_payment |-> 0, last_payment_date |-> "loading",
     owe_amount |-> 0,
     monthly_volume |-> 0, monthly_cost |-> 0,
     current_month_cost |-> 0, current_month_volume |-> 0,
     yearly_volume |-> 0, yearly_cost |-> 0,
     last_day_usage |-> 0, last_day_usage_time |-> "",
     recent_monthly_cost |-> 0, recent_monthly_usage |-> 0,
     ladder_stage |-> 1, ladder_unit_price |-> 0]

\* GasCoordinator._async_refresh_basic_data: get_user_debt only (no retry),
\* then the defaults
_async_refresh_basic_data(clients, logged_in, user_code) ==
    Bind(_get_or_create_client(clients, logged_in, user_code), LAMBDA g :
    Bind(UserDebtStep(get_user_debt(g.clients[user_code], gasApi.debt[1]),
                      g.clients[user_code]),
         LAMBDA s1 :
    [account_data |-> DictUpdate(BasicDefaults, s1.account_data),
     clients |-> DictSet(g.clients, user_code, s1.client),
     logged_in |-> g.logged_in]))

\* GasBaseSensor._handle_coordinator_update: the value the sensor of
\* entity_suffix shows for the account, None when it is unavailable
Published(account_number, entity_suffix) ==
    IF account_number \notin DOMAIN data THEN None
    ELSE DictGet(data[account_number], entity_suffix, None)

\* ------------------------------------------------------------------------
\* Gas coordinator run against drawn provider answers
\* ------------------------------------------------------------------------
\* the rate table the provider hands out (m3 in tenths, price in cents)
RateItemInfo ==
    <<[beginVolume |-> 0, endVolume |-> 3600, price |-> 297],
      [beginVolume |-> 3600, endVolume |-> 5400, price |-> 356],
      [beginVolume |-> 5400, endVolume |-> INF, price |-> 446]>>

\* the balance the provider reports for the meter, before and after some
\* more of the prepaid gas is used up
OldBalance == 5025

NewBalance == 4025

GasAccountOf(mdm) ==
    [account_id |-> "A1", user_code |-> "10000001", customer_name |-> "Li",
     address |-> "Kunming", remote_meter_balance |-> OldBalance, meter_type |-> "remote",
     mdm_code |-> mdm, reading_last_time |-> 12340,
     remote_meter_last_communication_time |-> 20240501, user_code_id |-> "7"]

\* the answers to the attempts of one call: a single answer, or a 403 on
\* the first attempt followed by the answer to the retry
Attempts(firsts, retries) ==
    {<<a>> : a \in firsts} \cup {<<ApiRaise("403"), b>> : b \in retries}

DebtAnswers ==
    Attempts({ApiRaise("timeout"), ApiOk(GasAccountOf("")), ApiOk(GasAccountOf("9AH1"))},
             {ApiOk(GasAccountOf("9AH1"))})

PaymentAnswers ==
    Attempts({ApiRaise("timeout"), ApiError,
              ApiOk([recordsInfoList |->
                       <<[payAmount |-> 10000, operationDate |-> "2024-04-30",
                          oweAmount |-> 0]>>])},
             {ApiOk([recordsInfoList |-> <<>>])})

\* the last entries: a year made of two months, 300 m3 then 100 m3, and a
\* year whose only month so far used 400 m3
MonthlyData ==
    {[rateItemInfo |-> r, recordsInfo |-> recs, totalGasVolume |-> 3700] :
        r \in {<<>>, RateItemInfo},
        recs \in {<<>>, <<[gasVolume |-> 150]>>,
                  <<[gasVolume |-> 150], [gasVolume |-> 220]>>}}
    \cup {[rateItemInfo |-> RateItemInfo,
           recordsInfo |-> <<[gasVolume |-> 3000], [gasVolume |-> 1000]>>,
           totalGasVolume |-> 4000],
          [rateItemInfo |-> RateItemInfo,
           recordsInfo |-> <<[gasVolume |-> 4000]>>,
           totalGasVolume |-> 4000]}

MonthlyAnswers ==
    Attempts({ApiRaise("timeout"), ApiRaise("403"), ApiError, ApiOk(EmptyDict)}
                 \cup {ApiOk(m) : m \in MonthlyData},
             {ApiOk([rateItemInfo |-> RateItemInfo,
                     recordsInfo |-> <<[gasVolume |-> 150], [gasVolume |-> 220]>>,
                     totalGasVolume |-> 3700])})

DailyAnswers ==
    Attempts({ApiRaise("timeout"), ApiError,
              ApiOk(<<[date |-> "2024/05/02", volume |-> 15, reading |-> 12355],
                      [date |-> "2024/05/01", volume |-> 12, reading |-> 12340]>>)},
             {ApiOk(<<>>)})

GasApis ==
    [credentials : BOOLEAN,
     login : {"fail", "token", "token_and_mdm"},
     debt : DebtAnswers,
     payment : PaymentAnswers,
     monthly : MonthlyAnswers,
     daily : DailyAnswers]

InitCoord ==
    /\ last = "init"
    /\ GasIdle
    /\ WaterIdle
    /\ ElecIdle
    /\ gasApi \in GasApis
    /\ CoordInit

NextCursor == IF cursor = Len(Accounts) THEN 1 ELSE cursor + 1

\* the number of the _async_update_data call the next pass belongs to:
\* the call after this one when the for loop has reached the last account
MaxRefresh == 3

NextRefreshNo ==
    IF cursor = Len(Accounts)
    THEN IF refresh_no < MaxRefresh THEN refresh_no + 1 ELSE MaxRefresh
    ELSE refresh_no

\* del d[k]
DictDel(d, k) == [x \in DOMAIN d \ {k} |-> d[x]]

\* one pass of the for loop of _async_update_data while the first refresh
\* is pending: basic data now, the full data in a background task
UpdateAccountBasic ==
    /\ ~_first_refresh_done
    /\ \E account_number \in {Accounts[cursor]} :
       \E r \in {_async_refresh_basic_data(_clients, _logged_in, account_number)} :
           /\ data' = DictSet(data, account_number, r.account_data)
           /\ _clients' = r.clients
           /\ _logged_in' = r.logged_in
           /\ tasks' = tasks \cup {account_number}
    /\ _first_refresh_done' = TRUE
    /\ cursor' = NextCursor
    /\ refresh_no' = NextRefreshNo
    /\ last' = "_async_refresh_basic_data"
    /\ UNCHANGED <<gasVars, waterVars, elecVars, gasApi, monthly_fetch, fetched,
                   calls_log>>

\* one pass of the for loop of _async_update_data after the first refresh
UpdateAccountFull ==
    /\ _first_refresh_done
    /\ \E account_number \in {Accounts[cursor]} :
       \E r \in {_async_refresh_account_data(_clients, _logged_in, account_number)} :
           /\ data' = DictSet(data, account_number, r.account_data)
           /\ _clients' = r.clients
           /\ _logged_in' = r.logged_in
           /\ monthly_fetch' = DictSet(monthly_fetch, account_number, r.how)
           /\ calls_log' = DictSet(calls_log, account_number, r.calls)
    /\ cursor' = NextCursor
    /\ refresh_no' = NextRefreshNo
    /\ last' = "_async_refresh_account_data"
    /\ UNCHANGED <<gasVars, waterVars, elecVars, gasApi, _first_refresh_done, tasks,
                   fetched>>

\* the background task _async_fetch_full_data of one account, up to the
\* point where its refresh has taken the provider's answers: the task is
\* suspended at each executor job, and the coordinator's other coroutines
\* run before it resumes
FetchFullDataRefresh ==
    /\ \E account_number \in tasks \ DOMAIN fetched :
         \E r \in {_async_refresh_account_data(_clients, _logged_in, account_number)} :
             /\ fetched' = DictSet(fetched, account_number,
                              [account_data |-> r.account_data, how |-> r.how,
                               calls |-> r.calls])
             /\ _clients' = r.clients
             /\ _logged_in' = r.logged_in
    /\ last' = "_async_fetch_full_data.await"
    /\ UNCHANGED <<gasVars, waterVars, elecVars, gasApi, data, _first_refresh_done,
                   tasks, cursor, monthly_fetch, refresh_no, calls_log>>

\* the background task _async_fetch_full_data of one account, resumed with
\* the account_data of its refresh: it merges them into the stored data
FetchFullData ==
    /\ \E account_number \in DOMAIN fetched :
         \E r \in {fetched[account_number]} :
             /\ data' = DictSet(data, account_number,
                          IF account_number \in DOMAIN data
                          THEN DictUpdate(data[account_number], r.account_data)
                          ELSE r.account_data)
             /\ monthly_fetch' = DictSet(monthly_fetch, account_number, r.how)
             /\ calls_log' = DictSet(calls_log, account_number, r.calls)
             /\ tasks' = tasks \ {account_number}
             /\ fetched' = DictDel(fetched, account_number)
    /\ last' = "_async_fetch_full_data"
    /\ UNCHANGED <<gasVars, waterVars, elecVars, gasApi, _clients, _logged_in,
                   _first_refresh_done, cursor, refresh_no>>

\* the provider's answers to get_user_debt once the balance has changed
NewerDebt(answers) ==
    [i \in 1..Len(answers) |->
        IF answers[i].kind = "ok"
        THEN ApiOk([answers[i].value EXCEPT !.remote_meter_balance = NewBalance])
        ELSE answers[i]]

\* the meter's balance changes at the provider between two fetches
MeterBalanceChanges ==
    /\ NewerDebt(gasApi.debt) # gasApi.debt
    /\ gasApi' = [gasApi EXCEPT !.debt = NewerDebt(@)]
    /\ last' = "remote_meter_balance"
    /\ UNCHANGED <<gasVars, waterVars, elecVars, data, _clients, _logged_in,
                   _first_refresh_done, tasks, cursor, monthly_fetch, refresh_no,
                   fetched, calls_log>>

NextCoord ==
    \/ UpdateAccountBasic
    \/ UpdateAccountFull
    \/ FetchFullDataRefresh
    \/ FetchFullData
    \/ MeterBalanceChanges

SpecCoord == InitCoord /\ [][NextCoord]_vars

\* ------------------------------------------------------------------------
\* kunming_water/sensor.py : WaterCoordinator
\* ------------------------------------------------------------------------
\* Usage is in tenths of a m3, rates in cents per m3, fees in cents.
\* A bill number is the sequence of its characters.
WATER_RATE == 320

SEWAGE_RATE == 100

GARBAGE_FEE == 2000

\* int(x) of the amount field: the error it raises ("" when none); the text
\* of a number with a fraction is no integer literal
IntError(x) ==
    CASE x.t = "null" -> "TypeError"
      [] x.t = "empty" -> "ValueError"
      [] x.t = "numstr" /\ x.v % 10 # 0 -> "ValueError"
      [] OTHER -> ""

\* int(x) of a number >= 0 or of the text of a whole number: the fraction
\* is cut off
IntOf(x) == (x.v \div 10) * 10

Digits == <<"0", "1", "2", "3", "4", "5", "6", "7", "8", "9">>

\* int(s) of a slice of the bill number: None stands for ValueError
RECURSIVE DigitsValue(_, _)
DigitsValue(s, acc) ==
    IF s = <<>> THEN acc
    ELSE IF \A i \in 1..Len(Digits) : Digits[i] # Head(s) THEN None
    ELSE DigitsValue(Tail(s), acc * 10 + IndexOf(Digits, Head(s)) - 1)

\* lines 407-415: the bill date parsed from the first six characters of
\* the bill number, None when there are fewer, when they are not digits,
\* or when date(year, month, 10) rejects them
BillDate(bill_no) ==
    IF bill_no = <<>> \/ Len(bill_no) < 6 THEN None
    ELSE LET year == DigitsValue(SubSeq(bill_no, 1, 4), 0)
             month == DigitsValue(SubSeq(bill_no, 5, 6), 0)
         IN  IF year = None \/ month = None THEN None
             ELSE IF year \notin 1..9999 \/ month \notin 1..12 THEN None
             ELSE year * 10000 + month * 100 + 10

NoBill ==
    [latest_usage |-> None, latest_bill_amount |-> None,
     bill_water_fee |-> None, bill_sewage_fee |-> None,
     bill_garbage_fee |-> None, two_month_usage |-> None,
     monthly_avg_usage |-> None, bill_date |-> None]

\* lines 391-432 of _async_update_data: the bill figures derived from the
\* first element of bill_list, or the error that leaves the method
BillFigures(bill_list) ==
    IF bill_list = <<>> THEN Return(NoBill)
    ELSE LET amount == GetOrZero(bill_list[1].amount)
             bill_no == DictGet(bill_list[1], "billNo", <<>>)
         IN  IF IntError(amount) = "TypeError" THEN Raise("TypeError")
             ELSE IF IntError(amount) = "ValueError" THEN Return(NoBill)
             ELSE LET latest_usage == IntOf(amount)
                      bill_water_fee == Round2(latest_usage * WATER_RATE)
                      bill_sewage_fee == Round2(latest_usage * SEWAGE_RATE)
                  IN  IF latest_usage > 0
                      THEN Return(
                        [latest_usage |-> latest_usage,
                         latest_bill_amount |->
                            Round2((bill_water_fee + bill_sewage_fee + GARBAGE_FEE) * 10),
                         bill_water_fee |-> bill_water_fee,
                         bill_sewage_fee |-> bill_sewage_fee,
                         bill_garbage_fee |-> GARBAGE_FEE,
                         two_month_usage |-> latest_usage,
                         monthly_avg_usage |-> latest_usage \div 2,
                         bill_date |-> BillDate(bill_no)])
                      ELSE Return(
                        [NoBill EXCEPT !.latest_usage = latest_usage,
                                       !.bill_date = BillDate(bill_no)])

\* lines 435-458: the account_data stored under the user code
WaterAccountData(config, bill) ==
    [user_name |-> config.user_name, address |-> config.address,
     user_code |-> config.user_code, caliber |-> config.caliber,
     cycle |-> config.cycle, bill_list |-> config.bill_list]
    @@ bill

\* WaterBaseSensor._handle_coordinator_update: the value the sensor of
\* entity_suffix shows for the account, None when it is unavailable
WaterPublished(account_number, entity_suffix) ==
    IF account_number \notin DOMAIN waterData THEN None
    ELSE DictGet(waterData[account_number], entity_suffix, None)

\* ------------------------------------------------------------------------
\* Water coordinator run on drawn config entries
\* ------------------------------------------------------------------------
MaxBillUsage == 40

BillAmounts ==
    {Missing, Null, Empty, Num(155), NumStr(155)}
    \cup {NumStr(u * 10) : u \in 0..MaxBillUsage}

BillNumbers ==
    { <<"2", "0", "2", "4", "0", "5", "1", "7">>,
      <<"2", "0", "2", "4", "1", "3">>,
      <<"2", "0", "2", "4">>,
      <<"X", "0", "2", "4", "0", "5">> }

Bills ==
    [amount : BillAmounts, billNo : BillNumbers]
    \cup {[amount |-> NumStr(150)]}

WaterConfigs ==
    [user_code : {"W1"}, user_name : {"Li"}, address : {"Kunming"},
     caliber : {"DN15"}, cycle : {"bimonthly"},
     bill_list : {<<>>} \cup {<<b>> : b \in Bills}
                 \cup {<<[amount |-> NumStr(150),
                          billNo |-> <<"2", "0", "2", "4", "0", "5">>],
                         [amount |-> NumStr(90),
                          billNo |-> <<"2", "0", "2", "4", "0", "3">>]>>}]

\* WaterCoordinator.__init__: the config entry's data, no data yet
InitBill ==
    /\ last = "init"
    /\ GasIdle
    /\ total_usage = 0
    /\ waterResult = NoResult
    /\ _config \in WaterConfigs
    /\ waterData = <<>>
    /\ ElecIdle
    /\ CoordIdle

\* WaterCoordinator._async_update_data, returning self.data
AsyncUpdateData ==
    /\ \E r \in {BillFigures(_config.bill_list)} :
         /\ r.kind = "return"
         /\ waterData' = DictSet(waterData, _config.user_code,
                                 WaterAccountData(_config, r.value))
    /\ last' = "_async_update_data"
    /\ UNCHANGED <<gasVars, elecVars, coordVars, total_usage, waterResult, _config>>

\* WaterCoordinator._async_update_data left by an error: data is not set
AsyncUpdateDataFails ==
    /\ \E r \in {BillFigures(_config.bill_list)} : r.kind = "raise"
    /\ last' = "UpdateFailed"
    /\ UNCHANGED <<gasVars, elecVars, coordVars, waterVars>>

NextBill == AsyncUpdateData \/ AsyncUpdateDataFails

SpecBill == InitBill /\ [][NextBill]_vars

\* ========================================================================
\* Properties
\* ========================================================================

\* capacity end - start of band i, and the capacity of the first k bands
Capacity(cfg, i) == FSub(cfg[i].end, cfg[i].start)

RECURSIVE CumCapacity(_, _)
CumCapacity(cfg, k) ==
    IF k = 0 THEN 0
    ELSE IF Capacity(cfg, k) = INF \/ CumCapacity(cfg, k - 1) = INF THEN INF
         ELSE CumCapacity(cfg, k - 1) + Capacity(cfg, k)

RECURSIVE FullBandsCharge(_, _)
FullBandsCharge(cfg, k) ==
    IF k = 0 THEN 0
    ELSE FullBandsCharge(cfg, k - 1) + Capacity(cfg, k) * cfg[k].price

\* the band in which a volume ends: the first whose cumulative capacity holds it
BandOfVolume(cfg, vol) ==
    CHOOSE k \in 1..Len(cfg) :
        /\ vol <= CumCapacity(cfg, k)
        /\ \A j \in 1..(k - 1) : vol > CumCapacity(cfg, j)

AscendingOpenEnded(cfg) ==
    /\ Len(cfg) >= 1
    /\ \A i \in 1..(Len(cfg) - 1) : cfg[i].start < cfg[i + 1].start
    /\ cfg[Len(cfg)].end = INF

ScenarioBands ==
    << [start |-> 0, end |-> 3600, price |-> 297],
       [start |-> 3600, end |-> 5400, price |-> 356],
       [start |-> 5400, end |-> INF, price |-> 446] >>

\* C1: for volume > 0 and an ascending band list with an open-ended last
\* band, every fully crossed band is charged end - start at its price, the
\* remainder at the price of the band it fits in, the cost is that sum
\* rounded to 2 decimals, and stage / unit price are the position and price
\* of the last band touched; 400 m3 on the 2.97/3.56/4.46 table gives
\* stage 2, 3.56, 1211.60.
C1_PiecewiseCost ==
    (last = "calculate_cost_by_ladder" /\ volume > 0
        /\ AscendingOpenEnded(ladder_config)) =>
      LET k == BandOfVolume(ladder_config, volume)
      IN  /\ gasResult.stage = k
          /\ gasResult.unit_price = ladder_config[k].price
          /\ gasResult.cost =
                Round2(FullBandsCharge(ladder_config, k - 1)
                       + (volume - CumCapacity(ladder_config, k - 1))
                         * ladder_config[k].price)
          /\ (ladder_config = ScenarioBands /\ volume = 4000) =>
                /\ gasResult.stage = 2
                /\ gasResult.unit_price = 356
                /\ gasResult.cost = 121160

C1_Witness ==
    /\ last = "calculate_cost_by_ladder"
    /\ ladder_config = ScenarioBands
    /\ volume = 4000
    /\ gasResult.cost = 121160

\* lower and upper bound of the band a water result names: rangeMin is the
\* previous band's upper bound (0 for the first band)
WaterRangeMin(stage) ==
    IF stage = 1 THEN 0 ELSE WATER_LADDER_CONFIG[stage - 1].max_volume

WaterRangeMax(stage) == WATER_LADDER_CONFIG[stage].max_volume

\* C3 as claimed: the band returned for a usage >= 0 contains it half-open,
\* rangeMin <= usage and (usage < rangeMax or the band is open-ended),
\* boundaries 12.5 and 17.5 included.
C3_HalfOpenContainment ==
    (last = "calculate_ladder_stage" /\ total_usage >= 0) =>
      LET st == waterResult.value.stage
      IN  /\ st \in 1..Len(WATER_LADDER_CONFIG)
          /\ WaterRangeMin(st) <= total_usage
          /\ (total_usage < WaterRangeMax(st) \/ WaterRangeMax(st) = INF)

\* C3 amended: the band returned for a usage >= 0 contains it with the
\* upper bound included: usage <= rangeMax, and rangeMin < usage unless it
\* is the first band; its unit price is that band's; a usage equal to 12.5
\* or 17.5 resolves to the band that ends there.
C3_UpperInclusiveContainment ==
    (last = "calculate_ladder_stage" /\ total_usage >= 0) =>
      LET st == waterResult.value.stage
      IN  /\ st \in 1..Len(WATER_LADDER_CONFIG)
          /\ total_usage <= WaterRangeMax(st)
          /\ (st = 1 \/ WaterRangeMin(st) < total_usage)
          /\ waterResult.value.unit_price = WATER_LADDER_CONFIG[st].unit_price
          /\ (total_usage = 125 => st = 1)
          /\ (total_usage = 175 => st = 2)

C3_Witness ==
    /\ last = "calculate_ladder_stage"
    /\ total_usage = 175
    /\ waterResult.value.stage = 2

\* ---- electricity: shorthands for the call a state records
MonthCall == last = "get_month_daily_cost_detail"

CalendarCall == last = "get_calendar_ladder_info"

\* the band [range_min, range_max) of the reference table that holds x
HalfOpenBand(x) ==
    CHOOSE t \in 1..4 :
        /\ LADDER_TIER_DEFINITIONS[t].range_min <= x
        /\ \/ LADDER_TIER_DEFINITIONS[t].range_max = None
           \/ x < LADDER_TIER_DEFINITIONS[t].range_max

\* C2 as claimed: when the fallback runs on yearly statistics with a known
\* cumulative usage x, it reports the band [rangeMin, rangeMax) holding x
\* as the tier with that band's price, remaining = rangeMax - x, None in
\* the open-ended band; for 2500 kWh: tier 3, 0.50, 500 kWh.
C2_DerivedTierResolution ==
    (/\ MonthCall
     /\ eLocals.path = "fallback"
     /\ ApiResult(eReq.env.fallback.stats).kind = "return"
     /\ eReq.env.fallback.stats.data.totalBillingElectricity.t = "numstr"
     /\ eReq.env.fallback.stats.data.totalBillingElectricity.v >= 0) =>
      LET x == Float(eReq.env.fallback.stats.data.totalBillingElectricity)
          t == HalfOpenBand(x)
      IN  /\ eRet.kind = "return"
          /\ eRet.value.ladder.ladder = t
          /\ eRet.value.ladder.tariff = LADDER_TIER_DEFINITIONS[t].price
          /\ eRet.value.ladder.remaining_kwh =
                IF LADDER_TIER_DEFINITIONS[t].range_max = None THEN None
                ELSE LADDER_TIER_DEFINITIONS[t].range_max - x
          /\ (x = 25000 =>
                /\ eRet.value.ladder.ladder = 3
                /\ eRet.value.ladder.tariff = 50
                /\ eRet.value.ladder.remaining_kwh = 5000)

\* C4 as claimed: the fallback starts only after a provider error of the
\* day-detail call (a response whose status is not success); a connection
\* error or a non-200 HTTP status (CSGHTTPError) is raised to the caller
\* and starts no fallback.
C4_FallbackOnlyOnProviderError ==
    MonthCall =>
      LET api == ApiResult(eReq.env.primary)
      IN  /\ eLocals.path = "fallback" =>
                /\ eReq.env.primary.transport = "ok"
                /\ eReq.env.primary.http_status = 200
                /\ eReq.env.primary.sta # RESP_STA_SUCCESS
          /\ (api.kind = "raise" /\ api.exc \in {"ConnectionError", "CSGHTTPError"}) =>
                /\ eLocals.path = "primary"
                /\ eRet = api
                /\ Len(eCalls) = 1

TierUnresolvable(resp_data) ==
    /\ resp_data.currentGear.t # "null"
    /\ \A i \in 1..Len(ladder_name_to_tier) :
          ~IsSubstring(ladder_name_to_tier[i].name,
                       IF resp_data.currentGear.t = "str"
                       THEN resp_data.currentGear.s ELSE <<>>)
    /\ \/ resp_data.totalElectricityOfYear.t \in {"null", "empty"}
       \/ \A i \in 1..Len(resp_data.ladderInfoList) :
             LET x == Float(GetOrZero(resp_data.totalElectricityOfYear))
             IN  ~(/\ resp_data.ladderInfoList[i].threshholdBottom.v <= x
                   /\ x <= resp_data.ladderInfoList[i].threshholdTop.v)

\* C6 as claimed: when neither the name nor the bands resolve the tier,
\* get_calendar_ladder_info raises UnresolvedTier and returns no result.
C6_UnresolvedTierSignalled ==
    (CalendarCall /\ ApiResult(eReq.env).kind = "return"
        /\ TierUnresolvable(eReq.env.data)) =>
      eRet = Raise("UnresolvedTier")

\* positions of the table names found in a gear name
NamesIn(gear) ==
    {i \in 1..Len(ladder_name_to_tier) :
        \E k \in 0..(Len(gear) - Len(ladder_name_to_tier[i].name)) :
            \A j \in 1..Len(ladder_name_to_tier[i].name) :
                gear[k + j] = ladder_name_to_tier[i].name[j]}

\* positions of the bands [threshholdBottom, threshholdTop] holding x
BandsHolding(list, x) ==
    {i \in 1..Len(list) :
        list[i].threshholdBottom.v <= x /\ x <= list[i].threshholdTop.v}

Least(S) == CHOOSE i \in S : \A j \in S : i <= j

\* get_calendar_ladder_info got through its tier resolution (lines
\* 1043-1070): it ended by returning or at the dict of lines 1082-1093
TierResolutionRan ==
    /\ CalendarCall
    /\ ApiResult(eReq.env).kind = "return"
    /\ eRet.kind = "return" \/ eRet.exc = "NameError"

FloatOrAbsent(x) ==
    IF x.t \in {"missing", "null", "empty"} THEN None ELSE x.v

\* C8 as claimed: the tariff and the remaining kWh that
\* get_calendar_ladder_info computes for its result are None for a missing,
\* null or empty field and the float value of the field otherwise, a value
\* of zero included.
C8_FloatOrAbsentFields ==
    TierResolutionRan =>
      /\ eLocals.tariff = FloatOrAbsent(eReq.env.data.currentElectricityPrice)
      /\ eLocals.remaining_kwh = FloatOrAbsent(eReq.env.data.gearPowerLeft)

\* a primary-path run that returned its tuple
PrimaryReturned ==
    /\ MonthCall
    /\ eLocals.path = "primary"
    /\ eRet.kind = "return"

\* C9: on the primary path month total kWh, tier index, tier start date,
\* tier remaining kWh and tariff are None exactly when their response field
\* is null, each day's kWh is None exactly when that day's power is null,
\* and a null field never comes out as 0.
C9_NullStaysNone ==
    PrimaryReturned =>
      LET resp_data == eReq.env.primary.data
          v == eRet.value
      IN  /\ (v.month_total_kwh = None) <=> (resp_data.totalPower = Null)
          /\ (v.ladder.ladder = None) <=> (resp_data.ladderEle = Null)
          /\ (v.ladder.start_date = None) <=> (resp_data.ladderEleStartDate = Null)
          /\ (v.ladder.remaining_kwh = None) <=> (resp_data.ladderEleSurplus = Null)
          /\ (v.ladder.tariff = None) <=> (resp_data.ladderEleTariff = Null)
          /\ Len(v.by_day) = Len(resp_data.result)
          /\ \A i \in 1..Len(resp_data.result) :
                (v.by_day[i].kwh = None) <=> (resp_data.result[i].power = Null)
          /\ resp_data.totalPower # Null => v.month_total_kwh = resp_data.totalPower.v
          /\ \A i \in 1..Len(resp_data.result) :
                resp_data.result[i].power # Null =>
                    v.by_day[i].kwh = resp_data.result[i].power.v

C9_Witness ==
    /\ PrimaryReturned
    /\ eReq.env.primary.data.totalPower = Null
    /\ eReq.env.primary.data.ladderEleSurplus = NumStr(0)
    /\ Len(eReq.env.primary.data.result) = 2
    /\ eReq.env.primary.data.result[1].power = Null
    /\ eReq.env.primary.data.result[2].power = NumStr(0)
    /\ eRet.value.month_total_kwh = None
    /\ eRet.value.by_day[1].kwh = None
    /\ eRet.value.by_day[2].kwh = 0

\* ------------------------------------------------------------------------
\* C10 (gas coordinator).  Whenever the last monthly-usage fetch of an
\* account raised, returned an error, or was skipped because the account
\* is not authenticated, the ladder stage, the ladder unit price and the
\* monthly and yearly cost the sensors show for that account are
\* unavailable (None), never the stand-in values 1 and 0.
\* ------------------------------------------------------------------------
C10_UnknownNotMasked ==
    \A a \in DOMAIN monthly_fetch :
        monthly_fetch[a] \in {"raised", "error", "unauthenticated"} =>
            /\ Published(a, "ladder_stage") = None
            /\ Published(a, "ladder_unit_price") = None
            /\ Published(a, "monthly_cost") = None
            /\ Published(a, "yearly_cost") = None

\* ------------------------------------------------------------------------
\* Fallback estimator (electricity), claims C11 - C14
\* ------------------------------------------------------------------------
\* a month-detail call whose day-detail request failed with an error that
\* starts the fallback, and the yearly statistics it then meets
FallbackRan == MonthCall /\ eLocals.path = "fallback"

FallbackStats == eReq.env.fallback.stats

FallbackStatsOk == ApiResult(FallbackStats).kind = "return"

\* the entries of electricAndChargeList whose key is the requested month
MonthEntries ==
    {i \in 1..Len(FallbackStats.data.electricAndChargeList) :
        FallbackStats.data.electricAndChargeList[i].yearMonth
            = MonthStr(eReq.env.fallback.year_month)}

\* how often a provider endpoint was called in the run
CallCount(name) == Cardinality({i \in 1..Len(eCalls) : eCalls[i] = name})

\* C11 as claimed: when the yearly statistics carry a null cumulative usage
\* the fallback returns its tuple with tier, unit price and remaining kWh
\* all None; the tier is not resolved as for 0 kWh.
C11_NullYearlyUsageUnknown ==
    (FallbackRan /\ FallbackStatsOk
        /\ FallbackStats.data.totalBillingElectricity = Null) =>
      /\ eRet.kind = "return"
      /\ eRet.value.ladder.ladder = None
      /\ eRet.value.ladder.tariff = None
      /\ eRet.value.ladder.remaining_kwh = None

C13_UsageEndpointOnceWhenAbsent ==
    (FallbackRan /\ FallbackStatsOk) =>
      /\ CallCount("api_query_day_electric_by_m_point") =
            (IF MonthEntries = {} /\ eReq.env.fallback.is_current_month
             THEN 1 ELSE 0)
      /\ \A i \in 1..Len(eCalls) :
            eCalls[i] = "api_query_day_electric_by_m_point" =>
               \E j \in 1..(i - 1) : eCalls[j] = "api_get_fee_analyze_details"

\* C14 as claimed: the fallback's month total cost is the cost of the
\* month's entry in the yearly statistics when there is one; otherwise
\* round(month usage x unit price, 2) when both are known, and None when
\* either is unknown.
C14_FallbackCostDerivation ==
    (FallbackRan /\ FallbackStatsOk) =>
      /\ eRet.kind = "return"
      /\ LET v == eRet.value
             list == FallbackStats.data.electricAndChargeList
         IN  /\ MonthEntries # {} =>
                   v.month_total_cost = Float(list[Least(MonthEntries)].actualTotalAmount)
             /\ (MonthEntries = {} /\ v.month_total_kwh # None
                    /\ v.ladder.tariff # None) =>
                   v.month_total_cost = Round2(v.month_total_kwh * v.ladder.tariff)
             /\ (MonthEntries = {}
                    /\ (v.month_total_kwh = None \/ v.ladder.tariff = None)) =>
                   v.month_total_cost = None

\* ------------------------------------------------------------------------
\* Cost reconciliation on the primary path (electricity), claims C15, C16
\* ------------------------------------------------------------------------
\* C15: on the primary path the charge of each per-day record is the
\* record's own charge when the response gives one; otherwise
\* round(power x tariff, 2) when the day's power and the month's tariff are
\* both given; otherwise None.
C15_DayChargePreference ==
    PrimaryReturned =>
      LET resp_data == eReq.env.primary.data
      IN  /\ Len(eRet.value.by_day) = Len(resp_data.result)
          /\ \A i \in 1..Len(resp_data.result) :
                LET d == resp_data.result[i]
                    charge == eRet.value.by_day[i].charge
                IN  /\ d.charge # Null => charge = d.charge.v
                    /\ (d.charge = Null /\ d.power # Null
                           /\ resp_data.ladderEleTariff # Null) =>
                          charge = Round2(d.power.v * resp_data.ladderEleTariff.v)
                    /\ (d.charge = Null
                           /\ (d.power = Null \/ resp_data.ladderEleTariff = Null)) =>
                          charge = None

\* a day without charge but with 1.5 kWh under a tariff of 0.45: 0.68
C15_Witness ==
    /\ PrimaryReturned
    /\ Len(eReq.env.primary.data.result) = 2
    /\ eReq.env.primary.data.ladderEleTariff = NumStr(45)
    /\ eReq.env.primary.data.result[1].charge = Null
    /\ eReq.env.primary.data.result[1].power = NumStr(15)
    /\ eReq.env.primary.data.result[2].charge = NumStr(45)
    /\ eRet.value.by_day[1].charge = 68
    /\ eRet.value.by_day[2].charge = 45

C17_SplitAdditive ==
    \A a \in DOMAIN monthly_fetch :
        (/\ monthly_fetch[a] = "ok"
         /\ Published(a, "yearly_volume") > 0
         /\ Published(a, "yearly_volume") =
               Published(a, "monthly_volume") + Published(a, "current_month_volume")) =>
            Published(a, "yearly_cost") =
               Published(a, "monthly_cost") + Published(a, "current_month_cost")

\* a band list that starts at 0 and in which each band starts where the
\* previous one ends
Contiguous(cfg) ==
    /\ Len(cfg) >= 1
    /\ cfg[1].start = 0
    /\ \A i \in 1..(Len(cfg) - 1) : cfg[i].end = cfg[i + 1].start

\* C18: for a fixed band list the cost does not decrease with the volume
\* (every smaller volume costs at most what the call returned), and for a
\* contiguous list a volume that equals the end of band k costs the sum of
\* (end - start) x price over bands 1..k.
C18_MonotoneAndBoundary ==
    last = "calculate_cost_by_ladder" =>
      /\ \A v1 \in GasVolumes :
            v1 <= volume =>
               calculate_cost_by_ladder(v1, ladder_config)[3] <= gasResult.cost
      /\ \A k \in 1..Len(ladder_config) :
            (Contiguous(ladder_config) /\ volume = ladder_config[k].end) =>
               gasResult.cost = Round2(FullBandsCharge(ladder_config, k))

\* 540 m3 on the 2.97/3.56/4.46 table: 360 x 2.97 + 180 x 3.56 = 1710.00
C18_Witness ==
    /\ last = "calculate_cost_by_ladder"
    /\ ladder_config = ScenarioBands
    /\ volume = 5400
    /\ gasResult.cost = 171000
    /\ calculate_cost_by_ladder(4000, ladder_config)[3] = 121160

\* C19: a call with volume 0 or with an empty band list returns stage 1,
\* unit price 0 and cost 0, whatever the other argument is.
C19_ZeroOrEmptyEdge ==
    (last = "calculate_cost_by_ladder"
        /\ (volume = 0 \/ ladder_config = <<>>)) =>
      gasResult = [kind |-> "return", stage |-> 1, unit_price |-> 0, cost |-> 0]

C19_Witness ==
    /\ last = "calculate_cost_by_ladder"
    /\ volume = 0
    /\ ladder_config = ScenarioBands
    /\ gasResult = [kind |-> "return", stage |-> 1, unit_price |-> 0, cost |-> 0]

\* ------------------------------------------------------------------------
\* Water bill (C20)
\* ------------------------------------------------------------------------
\* the coordinator has published the account of a config entry whose first
\* bill carries an amount int() accepts; BilledUsage is that usage
BillPublished ==
    /\ last = "_async_update_data"
    /\ _config.bill_list # <<>>
    /\ IntError(GetOrZero(_config.bill_list[1].amount)) = ""

BilledUsage == IntOf(GetOrZero(_config.bill_list[1].amount))

\* C20 as claimed: for every billed usage the published water fee is
\* round(usage x 3.20, 2), the sewage fee round(usage x 1.00, 2), the
\* garbage fee 20.00 and the bill amount the sum of the three rounded
\* items; usage 15 gives 48.00, 15.00, 20.00 and 83.00.
C20_WaterBillLineItems ==
    BillPublished =>
      LET a == _config.user_code
      IN  /\ WaterPublished(a, "bill_water_fee") = Round2(BilledUsage * 320)
          /\ WaterPublished(a, "bill_sewage_fee") = Round2(BilledUsage * 100)
          /\ WaterPublished(a, "bill_garbage_fee") = 2000
          /\ WaterPublished(a, "latest_bill_amount") =
                Round2(BilledUsage * 320) + Round2(BilledUsage * 100) + 2000
          /\ BilledUsage = 150 =>
                /\ WaterPublished(a, "bill_water_fee") = 4800
                /\ WaterPublished(a, "bill_sewage_fee") = 1500
                /\ WaterPublished(a, "latest_bill_amount") = 8300

\* ------------------------------------------------------------------------
\* Water: flat garbage fee, band walk, input contract (C21 - C23)
\* ------------------------------------------------------------------------
\* C21 as claimed: for every bill with a billed usage >= 0, usage 0
\* included, the published garbage fee is 20.00 and the published bill
\* amount is the usage-dependent fees plus that 20.00.
C21_GarbageFeeFlat ==
    (BillPublished /\ BilledUsage >= 0) =>
      LET a == _config.user_code
      IN  /\ WaterPublished(a, "bill_garbage_fee") = GARBAGE_FEE
          /\ WaterPublished(a, "latest_bill_amount") # None
          /\ WaterPublished(a, "latest_bill_amount") >= GARBAGE_FEE

\* positions of the bands whose upper bound is >= the usage
BandsAtLeast(usage) ==
    {i \in 1..Len(WATER_LADDER_CONFIG) : WATER_LADDER_CONFIG[i].max_volume >= usage}

\* C22: for a usage >= 0 the call returns stage and unit price of the
\* first band of the table, in ascending order, whose upper bound is >=
\* the usage, and those of the last band when no band has such a bound;
\* the usage is handed back unchanged.
C22_FirstBandAtLeast ==
    (last = "calculate_ladder_stage" /\ total_usage >= 0) =>
      LET i == IF BandsAtLeast(total_usage) = {}
               THEN Len(WATER_LADDER_CONFIG)
               ELSE Least(BandsAtLeast(total_usage))
      IN  /\ \A k \in 1..(Len(WATER_LADDER_CONFIG) - 1) :
                WATER_LADDER_CONFIG[k].max_volume < WATER_LADDER_CONFIG[k + 1].max_volume
          /\ waterResult.kind = "return"
          /\ waterResult.value.stage = WATER_LADDER_CONFIG[i].stage
          /\ waterResult.value.unit_price = WATER_LADDER_CONFIG[i].unit_price
          /\ waterResult.value.monthly_usage = total_usage

\* 15.0 m3: band 1 ends below it, band 2 is the first to hold it
C22_Witness ==
    /\ last = "calculate_ladder_stage"
    /\ total_usage = 150
    /\ waterResult.value.stage = 2
    /\ waterResult.value.unit_price = 580

\* C23 as claimed: a call with a usage >= 0 returns a band and raises
\* nothing; a call with a negative usage raises InvalidUsage and returns
\* no band.
C23_NegativeUsageRejected ==
    last = "calculate_ladder_stage" =>
      /\ total_usage >= 0 => waterResult.kind = "return"
      /\ total_usage < 0 =>
            /\ waterResult.kind = "raise"
            /\ waterResult.exc = "InvalidUsage"

\* ------------------------------------------------------------------------
\* C24 as claimed: a fallback run whose yearly statistics carry a negative
\* cumulative usage ends in an InvalidUsage error and returns no tier
\* resolution.
\* ------------------------------------------------------------------------
C24_NegativeYearlyUsageRejected ==
    (/\ FallbackRan
     /\ FallbackStatsOk
     /\ FallbackStats.data.totalBillingElectricity.t = "numstr"
     /\ FallbackStats.data.totalBillingElectricity.v < 0) =>
      /\ eRet.kind = "raise"
      /\ eRet.exc = "InvalidUsage"

\* ------------------------------------------------------------------------
\* C25..C29 : GasCoordinator refreshes
\* ------------------------------------------------------------------------
\* the accounts whose stored data come from a full refresh that went
\* through the authenticated calls (debt, payment, monthly, daily)
FullyFetched == {a \in DOMAIN calls_log : Len(calls_log[a]) = 4}

\* the daily records the stored refresh of account a fetched (newest
\* first), <<>> when the fetch gave none
DailyWindow(a) ==
    LET res == calls_log[a][4].res
    IN  IF res.kind = "return" /\ DictTruthy(res.value)
           /\ "daily_volumes" \in DOMAIN res.value
        THEN res.value.daily_volumes
        ELSE <<>>

\* the monthly block of the stored refresh of account a resolved a ladder
\* unit price (it set the key)
PriceResolved(a) == monthly_fetch[a] \in {"ok", "raised", "index_error"}

C26_FirstRefreshFastMode ==
    [][cursor' # cursor =>
         IF refresh_no = 1
         THEN /\ last' = "_async_refresh_basic_data"
              /\ Accounts[cursor] \in tasks'
              /\ calls_log' = calls_log
         ELSE last' = "_async_refresh_account_data"]_vars

\* the call_with_relogin calls of the refreshes whose data are stored
LoggedCalls ==
    UNION {{calls_log[a][i] : i \in 1..Len(calls_log[a])} : a \in DOMAIN calls_log}

\* C27: one call_with_relogin call invokes the wrapped function at most
\* twice and attempts at most one re-login; a re-login is attempted only
\* after a first attempt that failed with a 403 error, the second attempt
\* is made only after a re-login that succeeded, and the call ends as its
\* last attempt did: with its result, or with its error raised.
C27_ReloginAtMostOnce ==
    \A c \in LoggedCalls :
        /\ Len(c.tries) \in {1, 2}
        /\ c.logins \in {0, 1}
        /\ c.logins = 1 => (c.tries[1].kind = "raise" /\ c.tries[1].exc = "403")
        /\ Len(c.tries) = 2 => (c.logins = 1 /\ c.login_ok)
        /\ c.tries[1].kind = "return" => Len(c.tries) = 1
        /\ c.res = c.tries[Len(c.tries)]

\* the stored refreshes hold a call that succeeded on its retry and a call
\* that failed with 403 on its retry as well
C27_Witness ==
    /\ \E c \in LoggedCalls : Len(c.tries) = 2 /\ c.res.kind = "return"
    /\ \E c \in LoggedCalls :
          Len(c.tries) = 2 /\ c.res.kind = "raise" /\ c.res.exc = "403"

\* the rate table a monthly-usage payload carries, as the refresh reads it
FetchedLadderConfig(monthly_data) ==
    LET rate_items == DictGet(monthly_data, "rateItemInfo", <<>>)
    IN  [i \in 1..Len(rate_items) |->
           [start |-> DictGet(rate_items[i], "beginVolume", 0),
            end |-> DictGet(rate_items[i], "endVolume", INF),
            price |-> DictGet(rate_items[i], "price", 0)]]

\* the monthly-usage fetch of the stored refresh of account a succeeded:
\* the call returned data that carry no error
MonthlyFetchSucceeded(a) ==
    LET res == calls_log[a][3].res
    IN  res.kind = "return" /\ DictTruthy(res.value) /\ "error" \notin DOMAIN res.value

\* C28: after a monthly-usage fetch that succeeds, the ladder stage and
\* ladder unit price published for the account are the stage and unit price
\* calculate_cost_by_ladder returns for the published yearly volume and the
\* fetched rate table, whatever the number of monthly records.
C28_PublishedTierMatchesYearly ==
    \A a \in FullyFetched :
        MonthlyFetchSucceeded(a) =>
            LET cfg == FetchedLadderConfig(calls_log[a][3].res.value)
                y == calculate_cost_by_ladder(Published(a, "yearly_volume"), cfg)
            IN  /\ Published(a, "yearly_volume") # None
                /\ Published(a, "ladder_stage") = y[1]
                /\ Published(a, "ladder_unit_price") = y[2]

\* the accounts whose stored data a step changes
Rewritten ==
    {a \in DOMAIN data' : a \notin DOMAIN data \/ data'[a] # data[a]}

\* C29: under any interleaving of the periodic refresh and the background
\* full fetch, stored data are never overwritten by the values of an older
\* fetch (an account that shows the provider's newer balance never goes
\* back to the older one), and a step for one account leaves the stored
\* data of every other account unchanged.
C29_NoStaleOverwrite ==
    [][/\ \A a \in DOMAIN data :
            Published(a, "balance") = NewBalance =>
                Published(a, "balance")' # OldBalance
       /\ Cardinality(Rewritten) <= 1]_vars

\* ------------------------------------------------------------------------
\* C30 : the constants the electricity wrappers reference
\* ------------------------------------------------------------------------
\* C30: csg_client/const.py defines LADDER_TIER_DEFINITIONS and
\* WF_ATTR_YEARLY_LADDER_TOTAL_KWH, so _get_month_detail_from_year_stats
\* does not end in ImportError and get_calendar_ladder_info, once its
\* provider call succeeded and its tier resolution went through, does not
\* end in NameError: both produce their result.
C30_ConstantsDefined ==
    /\ (FallbackRan /\ FallbackStatsOk) =>
          ~(eRet.kind = "raise" /\ eRet.exc = "ImportError")
    /\ (CalendarCall /\ ApiResult(eReq.env).kind = "return") =>
          ~(eRet.kind = "raise" /\ eRet.exc = "NameError")
====
